---- MODULE Spec2Model ----
(***************************************************************************)
(* Knapsack instance generator: the seeded item generator, the exact DP    *)
(* solver, the hardness metrics (Sahni-k, greedy ratio, bundle statistics) *)
(* and the constraint-satisfying seed/capacity search of the single-budget *)
(* (app.js), dual-budget (dual-app.js) and batch (batch-app.js) pages.     *)
(*                                                                         *)
(* Numbers.  The pages' default mode is integer weights and values; the    *)
(* searches of the pages are modelled in that mode.  A JavaScript number   *)
(* holding an integer below 2^53 is exact, so integer arithmetic is        *)
(* modelled by Integers.  The 2-decimal numbers of the continuous modes    *)
(* are IEEE doubles, a mantissa of 53 bits and an exponent, with correctly *)
(* rounded sums, quotients and products: the generator is modelled in      *)
(* every mode, the solver and the greedy ratio also for integer weights    *)
(* with 2-decimal values (the definitions named ...Cont).  The             *)
(* 32-bit words of the PRNG do not fit TLC's integers with headroom for    *)
(* sums and products, so a word is a pair <<hi, lo>> of 16-bit halves.     *)
(* A ratio a/b of two small integers is compared by cross-multiplication:  *)
(* IEEE division is correctly rounded, so two quotients of integers this   *)
(* small compare as the rationals do, and a quotient compares with a       *)
(* parsed decimal such as 0.8 as the rational does (4/5 and "0.8" round to *)
(* the same double).                                                       *)
(***************************************************************************)
EXTENDS Integers, Sequences, FiniteSets, TLC

(***************************************************************************)
(* 32-bit word arithmetic (two's complement), on 16-bit halves.            *)
(***************************************************************************)
Half == 256 * 256

W(hi, lo) == <<hi, lo>>

RECURSIVE XorN(_, _, _)
XorN(a, b, n) ==
    IF n = 0 THEN 0
    ELSE (((a % 2) + (b % 2)) % 2) + 2 * XorN(a \div 2, b \div 2, n - 1)

RECURSIVE OrN(_, _, _)
OrN(a, b, n) ==
    IF n = 0 THEN 0
    ELSE (IF (a % 2) = 1 \/ (b % 2) = 1 THEN 1 ELSE 0) + 2 * OrN(a \div 2, b \div 2, n - 1)

\* x ^ y
Xor32(x, y) == W(XorN(x[1], y[1], 16), XorN(x[2], y[2], 16))

\* x | m for a mask m < 2^16
OrLow(x, m) == W(x[1], OrN(x[2], m, 16))

\* (x + y) mod 2^32
Add32(x, y) ==
    LET lo == x[2] + y[2]
    IN  W((x[1] + y[1] + (lo \div Half)) % Half, lo % Half)

\* -x mod 2^32
Neg32(x) == Add32(W(Half - 1 - x[1], Half - 1 - x[2]), W(0, 1))

RECURSIVE Pow2(_)
Pow2(k) == IF k = 0 THEN 1 ELSE 2 * Pow2(k - 1)

\* x >>> k for 0 < k < 16
Shr32(x, k) ==
    W(x[1] \div Pow2(k), ((x[1] % Pow2(k)) * Pow2(16 - k)) + (x[2] \div Pow2(k)))

\* Math.imul(x, y): the low 32 bits of the product, by 8-bit limbs
Imul(x, y) ==
    LET a0 == x[2] % 256  a1 == x[2] \div 256  a2 == x[1] % 256  a3 == x[1] \div 256
        b0 == y[2] % 256  b1 == y[2] \div 256  b2 == y[1] % 256  b3 == y[1] \div 256
        c0 == a0 * b0
        c1 == (a0 * b1) + (a1 * b0) + (c0 \div 256)
        c2 == (a0 * b2) + (a1 * b1) + (a2 * b0) + (c1 \div 256)
        c3 == (a0 * b3) + (a1 * b2) + (a2 * b1) + (a3 * b0) + (c2 \div 256)
    IN  W(((c3 % 256) * 256) + (c2 % 256), ((c1 % 256) * 256) + (c0 % 256))

(***************************************************************************)
(* Seeds are strings; a string is the sequence of its char codes.          *)
(***************************************************************************)
RECURSIVE Digits(_)
\* the decimal digits of k >= 0, as char codes (String(k))
Digits(k) == IF k < 10 THEN <<48 + k>> ELSE Digits(k \div 10) \o <<48 + (k % 10)>>

Underscore == <<95>>

\* "_inst", the batch page's per-instance suffix
InstSuffix == <<95, 105, 110, 115, 116>>

\* one round of hashSeed's loop: ((hash << 5) - hash) + ch, kept to 32 bits;
\* (hash << 5) - hash is 31 * hash modulo 2^32
hashStep(hash, ch) ==
    LET lo == (31 * hash[2]) + ch
    IN  W(((31 * hash[1]) + (lo \div Half)) % Half, lo % Half)

RECURSIVE hashLoop(_, _)
\* the hash after the first n chars
hashLoop(seed, n) ==
    IF n = 0 THEN W(0, 0) ELSE hashStep(hashLoop(seed, n - 1), seed[n])

\* hashSeed: polynomial rolling hash of a string seed, absolute value
hashSeed(seed) ==
    LET hash == hashLoop(seed, Len(seed))
    IN  IF hash[1] >= 32768 THEN Neg32(hash) ELSE hash

\* 0x6D2B79F5
MulberryIncrement == W(27947, 31221)

\* the closure of mulberry32: one call moves the state and returns 32 bits
\* (the numerator of the returned float u / 4294967296)
mulberry32(state) ==
    LET s  == Add32(state, MulberryIncrement)
        t1 == Imul(Xor32(s, Shr32(s, 15)), OrLow(s, 1))
        t2 == Xor32(t1, Add32(t1, Imul(Xor32(t1, Shr32(t1, 7)), OrLow(t1, 61))))
    IN  [state |-> s, bits |-> Xor32(t2, Shr32(t2, 14))]

\* the state after k calls: each call adds the increment (seed += 0x6D2B79F5),
\* so k calls add k times the increment, modulo 2^32
rngAfter(state, k) ==
    LET lo == state[2] + (k * MulberryIncrement[2])
    IN  W((state[1] + (k * MulberryIncrement[1]) + (lo \div Half)) % Half, lo % Half)

\* sampleUniformInt on the draw u = bits / 2^32: floor(u * (max - min + 1)) + min
sampleUniformInt(bits, min, max) ==
    LET r == max - min + 1
    IN  (((bits[1] * r) + ((bits[2] * r) \div Half)) \div Half) + min

Max(a, b) == IF a >= b THEN a ELSE b
Min(a, b) == IF a <= b THEN a ELSE b

\* Math.round(v / w) for positive integers: halves round up
RoundDiv(v, w) == ((2 * v) + w) \div (2 * w)

(***************************************************************************)
(* IEEE doubles.  Continuous weights and values are decimals with two      *)
(* places, which a double does not hold exactly, so where such a number is *)
(* divided or multiplied the model computes the double the code computes:  *)
(* a positive double is [m, e], the number m * 2^e with 2^52 <= m < 2^53,  *)
(* and m is a natural number in five limbs of 15 bits, least limb first.   *)
(***************************************************************************)
Limb == 128 * 256
Limbs == 1..5

\* 2^k for 0 <= k <= 15
TwoTo(k) == <<1, 2, 4, 8, 16, 32, 64, 128, 256, 512, 1024, 2048, 4096, 8192,
              16384, 32768>>[k + 1]

\* the natural number n < 2^30
Big(n) == <<n % Limb, n \div Limb, 0, 0, 0>>

BigToInt(a) == a[1] + (a[2] * Limb)

\* a >= b
BigGeq(a, b) ==
    LET d == {i \in Limbs : a[i] # b[i]}
    IN  d = {} \/ (LET t == CHOOSE i \in d : \A j \in d : j <= i IN a[t] > b[t])

\* a - b for a >= b; limb i borrows when the limbs below it are less in a
BigSub(a, b) ==
    LET less(i) == LET d == {j \in Limbs : j < i /\ a[j] # b[j]}
                   IN  d # {} /\ (LET t == CHOOSE j \in d : \A k \in d : k <= j
                                  IN  a[t] < b[t])
        limb(i) == (a[i] - b[i] - (IF less(i) THEN 1 ELSE 0) + Limb) % Limb
    IN  <<limb(1), limb(2), limb(3), limb(4), limb(5)>>

\* a + 1
BigInc(a) ==
    LET limb(i) == IF \A j \in Limbs : j < i => a[j] = Limb - 1
                   THEN (a[i] + 1) % Limb ELSE a[i]
    IN  <<limb(1), limb(2), limb(3), limb(4), limb(5)>>

\* a + b
BigAdd(a, b) ==
    LET s1 == a[1] + b[1]
        s2 == a[2] + b[2] + (s1 \div Limb)
        s3 == a[3] + b[3] + (s2 \div Limb)
        s4 == a[4] + b[4] + (s3 \div Limb)
        s5 == a[5] + b[5] + (s4 \div Limb)
    IN  <<s1 % Limb, s2 % Limb, s3 % Limb, s4 % Limb, s5 % Limb>>

\* a * k for k < 2^15; p[i] carries into limb i + 1
BigMulSmall(a, k) ==
    LET p1 == a[1] * k
        p2 == (a[2] * k) + (p1 \div Limb)
        p3 == (a[3] * k) + (p2 \div Limb)
        p4 == (a[4] * k) + (p3 \div Limb)
        p5 == (a[5] * k) + (p4 \div Limb)
    IN  <<p1 % Limb, p2 % Limb, p3 % Limb, p4 % Limb, p5 % Limb>>

\* a * 2^s
BigShl(a, s) ==
    LET q == s \div 15
        r == s % 15
        at(i) == IF i \in Limbs THEN a[i] ELSE 0
        limb(i) == ((at(i - q) * TwoTo(r)) % Limb) + (at(i - q - 1) \div TwoTo(15 - r))
    IN  <<limb(1), limb(2), limb(3), limb(4), limb(5)>>

\* floor(a / 2^s)
BigShr(a, s) ==
    LET q == s \div 15
        r == s % 15
        at(i) == IF i \in Limbs THEN a[i] ELSE 0
        limb(i) == (at(i + q) \div TwoTo(r)) + ((at(i + q + 1) % TwoTo(r)) * TwoTo(15 - r))
    IN  <<limb(1), limb(2), limb(3), limb(4), limb(5)>>

\* bit j of a, bit 0 the least
BigBit(a, j) == (a[(j \div 15) + 1] \div TwoTo(j % 15)) % 2

\* the number of bits of a
BitLen(a) ==
    LET S == {j \in 0..((15 * Cardinality(Limbs)) - 1) : BigBit(a, j) = 1}
    IN  IF S = {} THEN 0 ELSE 1 + (CHOOSE j \in S : \A k \in S : k <= j)

\* m * 2^e with m of 53 or of 54 bits (m = 2^53, after a carry), as a double
renorm(m, e) ==
    IF BitLen(m) = 54 THEN [m |-> BigShr(m, 1), e |-> e + 1] ELSE [m |-> m, e |-> e]

\* p * 2^e rounded at bit d: the d low bits are dropped and the rest goes up
\* by one when they are more than half, or half with the rest odd
roundAt(p, inexact, e, d) ==
    renorm(IF /\ d >= 1
              /\ BigBit(p, d - 1) = 1
              /\ \/ inexact
                 \/ d >= 2 /\ BigShl(BigShr(p, d - 1), d - 1) # p
                 \/ BigBit(p, d) = 1
           THEN BigInc(BigShr(p, d)) ELSE BigShr(p, d),
           e + d)

\* round to nearest, ties to even: the double nearest to p * 2^e for p of 53
\* bits or more; inexact says that p is itself a quotient rounded down
roundTo53(p, inexact, e) == roundAt(p, inexact, e, BitLen(p) - 53)

\* the integer n >= 1 as a double (exact)
toDbl(n) == LET p == Big(n) IN [m |-> BigShl(p, 53 - BitLen(p)), e |-> BitLen(p) - 53]

\* the leading 15 bits or more of a number of 53 to 68 bits
BigTop(a) == BigToInt(BigShr(a, 38))

\* the quotient digit floor(n / d) < 2^15 for a mantissa d and n < d * 2^15:
\* the quotient est of the leading bits is within 3 of it
digitNear(n, d, est) ==
    CHOOSE k \in Max(0, est - 3)..Min(Limb - 1, est + 1) :
        /\ BigGeq(n, BigMulSmall(d, k))
        /\ ~BigGeq(BigSub(n, BigMulSmall(d, k)), d)

digitOf(n, d) == digitNear(n, d, BigTop(n) \div BigTop(d))

RECURSIVE longDiv(_, _, _, _)
\* long division by a mantissa d in base 2^15, k digits more: q holds the
\* quotient so far, least digit first, and r < d the remainder
longDiv(q, r, d, k) ==
    IF k = 0 THEN [q |-> q, r |-> r]
    ELSE CHOOSE s \in {longDiv(<<g>> \o q, BigSub(BigShl(r, 15), BigMulSmall(d, g)), d, k - 1) :
                          g \in {digitOf(BigShl(r, 15), d)}} : TRUE

\* the quotient of the mantissas to 60 binary places: one leading bit, then
\* four digits
quotient(n, d) ==
    IF BigGeq(n, d) THEN longDiv(<<1>>, BigSub(n, d), d, 4) ELSE longDiv(<<0>>, n, d, 4)

roundQuotient(s, e) == roundTo53(s.q, s.r # Big(0), e)

\* x / y, correctly rounded
fdiv(x, y) == roundQuotient(quotient(x.m, y.m), x.e - y.e - 60)

\* k * y for an integer 1 <= k < 2^15, correctly rounded
fmulInt(k, y) == roundTo53(BigMulSmall(y.m, k), FALSE, y.e)

\* Math.round(x) for a double 0 < x < 2^15: halves round up
roundDbl(x) ==
    LET s == 0 - x.e
    IN  IF s > 53 THEN 0
        ELSE BigToInt(BigShr(x.m, s)) + BigBit(x.m, s - 1)

\* x is j * y for an integer j >= 1, exactly (x % y is 0 and x >= y)
DblMultiple(x, y) ==
    LET j == roundDbl(fdiv(x, y))
    IN  j >= 1 /\ x.e >= y.e /\ BigShl(x.m, x.e - y.e) = BigMulSmall(y.m, j)

\* x >= y
DblGeq(x, y) == x.e > y.e \/ (x.e = y.e /\ BigGeq(x.m, y.m))

\* the double 0 is toDbl(0), the record with mantissa 0
IsZero(x) == x.m = Big(0)

\* x > y, for doubles that may be 0
DblGt(x, y) == ~IsZero(x) /\ (IsZero(y) \/ ~DblGeq(y, x))

\* big + small for positive doubles with big.e >= small.e, correctly rounded:
\* the sum is exact on the grid of small, or on a grid 21 bits below big with
\* the bits of small under it kept as a sticky flag
faddOrdered(big, small, d) ==
    IF d <= 21
    THEN roundTo53(BigAdd(BigShl(big.m, d), small.m), FALSE, small.e)
    ELSE roundTo53(BigAdd(BigShl(big.m, 21), BigShr(small.m, d - 21)),
                   BigShl(BigShr(small.m, d - 21), d - 21) # small.m,
                   big.e - 21)

\* x + y for doubles >= 0
fadd(x, y) ==
    IF IsZero(x) THEN y
    ELSE IF IsZero(y) THEN x
    ELSE IF x.e >= y.e THEN faddOrdered(x, y, x.e - y.e)
    ELSE faddOrdered(y, x, y.e - x.e)

\* the conversion of a store into an Int32Array, for a double 0 <= x < 2^30:
\* the fraction is dropped
ToInt32(x) ==
    IF IsZero(x) \/ 0 - x.e > 53 THEN 0 ELSE BigToInt(BigShr(x.m, 0 - x.e))

\* c - w for an integer 0 <= c < 2^15 and a double 0.01 <= w <= c: exact on
\* the grid of w, then rounded
fsubInt(c, w) ==
    LET p == BigSub(BigShl(Big(c), 0 - w.e), w.m)
    IN  IF p = Big(0) THEN [m |-> Big(0), e |-> -53]
        ELSE IF BitLen(p) < 53
             THEN [m |-> BigShl(p, 53 - BitLen(p)), e |-> w.e - (53 - BitLen(p))]
             ELSE roundTo53(p, FALSE, w.e)

\* x is an integer, for a double 0 <= x < 2^30
IsIntegerDbl(x) ==
    \/ IsZero(x)
    \/ x.e >= 0
    \/ x.e > -53 /\ BigShl(BigShr(x.m, 0 - x.e), 0 - x.e) = x.m

\* parseFloat of a decimal with two places, given in hundredths: the double
\* nearest to c / 100
parseCents(c) == fdiv(toDbl(c), toDbl(100))

(***************************************************************************)
(* The item generator: generateItems.  The model covers the uniform        *)
(* distribution with integer bounds, independent correlation and medium    *)
(* ratio spread (the spread step is skipped), with each combination of the *)
(* integer flags and of the integer-ratio flag.  The numbers of an item    *)
(* are integers when both integer flags are set and doubles otherwise.     *)
(***************************************************************************)
integerMode(config) == config.weightInt /\ config.valueInt

\* sampleUniformCont on the draw u = bits / 2^32, for integers min <= max:
\* min + u * (max - min) is exact in a double (32 fractional bits), toFixed(2)
\* rounds it to hundredths, halves up, and the result is at least 0.01
sampleUniformCont(bits, min, max) ==
    LET k == 100 * (max - min)
        a == (bits[1] * k) + ((bits[2] * k) \div Half)
    IN  parseCents(Max(1, (100 * min) + ((a + (Half \div 2)) \div Half)))

\* weightSampler(rng), from getSampler
weightOf(config, bits) ==
    IF config.weightInt
    THEN LET w == sampleUniformInt(bits, config.weightParams.min, config.weightParams.max)
         IN  IF integerMode(config) THEN w ELSE toDbl(w)
    ELSE sampleUniformCont(bits, config.weightParams.min, config.weightParams.max)

\* valueSampler(rng), then Math.max(valueInt ? 1 : 0.01, value)
valueOf(config, bits) ==
    IF config.valueInt
    THEN LET v == Max(1, sampleUniformInt(bits, config.valueParams.min,
                                          config.valueParams.max))
         IN  IF integerMode(config) THEN v ELSE toDbl(v)
    ELSE sampleUniformCont(bits, config.valueParams.min, config.valueParams.max)

\* the integer-ratio snap of one item: ratio = max(1, round(value / weight))
ratioOf(config, it) ==
    IF integerMode(config)
    THEN Max(1, RoundDiv(it.value, it.weight))
    ELSE Max(1, roundDbl(fdiv(it.value, it.weight)))

\* ratio * weight
timesWeight(config, ratio, weight) ==
    IF integerMode(config) THEN ratio * weight ELSE fmulInt(ratio, weight)

snapOf(config, it) == timesWeight(config, ratioOf(config, it), it.weight)

\* first pass: n weights, from the closure state rng; the state moves n draws
weightsPass(config, rng) ==
    [items |-> [i \in 1..config.nItems |->
                   [id |-> i,
                    weight |-> weightOf(config, mulberry32(rngAfter(rng, i - 1)).bits),
                    value |-> 0]],
     rng |-> rngAfter(rng, config.nItems)]

\* second pass: n values
valuesPass(config, items, rng) ==
    [items |-> [i \in 1..config.nItems |->
                   [items[i] EXCEPT
                       !.value = valueOf(config, mulberry32(rngAfter(rng, i - 1)).bits)]],
     rng |-> rngAfter(rng, config.nItems)]

\* the integer-ratio pass
snapPass(config, items) ==
    IF config.integerRatios
    THEN [i \in 1..config.nItems |-> [items[i] EXCEPT !.value = snapOf(config, items[i])]]
    ELSE items

\* generateItems: the passes in order, from the closure mulberry32(hashSeed(seedStr))
generateItems(config, seedStr) ==
    LET w == weightsPass(config, hashSeed(seedStr))
        v == valuesPass(config, w.items, w.rng)
    IN  snapPass(config, v.items)

(***************************************************************************)
(* The exact solver: solveKnapsack.                                        *)
(***************************************************************************)
\* a faulty dp cell: an item that fills the capacity exactly is not taken
dpCellStrictFit(prev, w, v, c) ==
    IF w < c /\ prev[c - w] + v > prev[c] THEN prev[c - w] + v ELSE prev[c]

\* dp[i][c] from row i-1 (prev), for item i of weight w and value v:
\* the item is taken only when that is strictly better
dpCell(prev, w, v, c) ==
    IF w <= c /\ prev[c - w] + v > prev[c] THEN prev[c - w] + v ELSE prev[c]

\* the table dp[0..n][0..capacity], row by row; rows[i + 1] is dp[i]
RECURSIVE dpFill(_, _, _)
dpFill(items, capacity, rows) ==
    IF Len(rows) = Len(items) + 1 THEN rows
    ELSE LET i    == Len(rows)
             prev == rows[i]
             row  == [c \in 0..capacity |->
                         dpCell(prev, items[i].weight, items[i].value, c)]
         IN  dpFill(items, capacity, Append(rows, row))

dpTable(items, capacity) ==
    dpFill(items, capacity, <<[c \in 0..capacity |-> 0]>>)

\* the backtracking test: item i was taken iff the DP value changed in row i
dpChanged(rows, i, c) == rows[i + 1][c] # rows[i][c]

\* a faulty backtracking loop: the remaining capacity is not reduced
RECURSIVE backtrackKeepC(_, _, _, _, _)
backtrackKeepC(items, rows, i, c, selected) ==
    IF i < 1 THEN selected
    ELSE IF dpChanged(rows, i, c)
         THEN backtrackKeepC(items, rows, i - 1, c, Append(selected, items[i]))
         ELSE backtrackKeepC(items, rows, i - 1, c, selected)

\* a faulty backtracking loop: an item is selected whenever taking it gives
\* the value of the cell, also when leaving it out gives the same
RECURSIVE backtrackPreferTake(_, _, _, _, _)
backtrackPreferTake(items, rows, i, c, selected) ==
    IF i < 1 THEN selected
    ELSE IF items[i].weight <= c
            /\ rows[i + 1][c] = rows[i][c - items[i].weight] + items[i].value
         THEN backtrackPreferTake(items, rows, i - 1, c - items[i].weight,
                                  Append(selected, items[i]))
         ELSE backtrackPreferTake(items, rows, i - 1, c, selected)

\* the backtracking loop, i = n down to 1; selected is in push order
RECURSIVE backtrack(_, _, _, _, _)
backtrack(items, rows, i, c, selected) ==
    IF i < 1 THEN selected
    ELSE IF dpChanged(rows, i, c)
         THEN backtrack(items, rows, i - 1, c - items[i].weight,
                        Append(selected, items[i]))
         ELSE backtrack(items, rows, i - 1, c, selected)

\* a faulty reversal: the push order is kept
ReverseKept(s) == s

Reverse(s) == [j \in 1..Len(s) |-> s[Len(s) + 1 - j]]

RECURSIVE SumWeight(_)
SumWeight(s) == IF s = <<>> THEN 0 ELSE s[1].weight + SumWeight(Tail(s))

\* the returned object, from dp[n][capacity] and the selected items
solution(value, selected) ==
    [value  |-> value,
     weight |-> SumWeight(selected),
     count  |-> Len(selected),
     items  |-> selected]

\* the part of solveKnapsack after the table is filled
solutionOf(items, capacity, rows) ==
    solution(rows[Len(items) + 1][capacity],
             Reverse(backtrack(items, rows, Len(items), capacity, <<>>)))

solveKnapsack(items, capacity) == solutionOf(items, capacity, dpTable(items, capacity))

\* the same code on items with integer weights and 2-decimal values (doubles).
\* dp is an array of Int32Array rows: the sum dp[i-1][c-w] + v is compared as
\* a double and loses its fraction when it is stored
dpStore(sum, cur) == IF DblGt(sum, toDbl(cur)) THEN ToInt32(sum) ELSE cur

dpCellCont(prev, w, v, c) ==
    IF w <= c THEN dpStore(fadd(toDbl(prev[c - w]), v), prev[c]) ELSE prev[c]

RECURSIVE dpFillCont(_, _, _)
dpFillCont(items, capacity, rows) ==
    IF Len(rows) = Len(items) + 1 THEN rows
    ELSE LET i    == Len(rows)
             prev == rows[i]
             row  == [c \in 0..capacity |->
                         dpCellCont(prev, items[i].weight, items[i].value, c)]
         IN  dpFillCont(items, capacity, Append(rows, row))

solveKnapsackCont(items, capacity) ==
    solutionOf(items, capacity,
               dpFillCont(items, capacity, <<[c \in 0..capacity |-> 0]>>))

\* the same code on items whose weights are doubles (continuous weights) and
\* whose values are doubles.  The index c - w of the typed-array row is a
\* double: a row has a value at an integer index only, the read at any other
\* index is undefined, undefined + v is NaN and NaN > dp[i][c] is false

\* a faulty cell: the index c - w is cut to an integer before the read
dpCellFracFloor(prev, w, v, c) ==
    IF DblGeq(toDbl(c), w)
    THEN dpStore(fadd(toDbl(prev[ToInt32(fsubInt(c, w))]), v), prev[c])
    ELSE prev[c]

dpCellFrac(prev, w, v, c) ==
    IF DblGeq(toDbl(c), w) /\ IsIntegerDbl(fsubInt(c, w))
    THEN dpStore(fadd(toDbl(prev[ToInt32(fsubInt(c, w))]), v), prev[c])
    ELSE prev[c]

RECURSIVE dpFillFrac(_, _, _)
dpFillFrac(items, capacity, rows) ==
    IF Len(rows) = Len(items) + 1 THEN rows
    ELSE LET i    == Len(rows)
             prev == rows[i]
             row  == [c \in 0..capacity |->
                         dpCellFrac(prev, items[i].weight, items[i].value, c)]
         IN  dpFillFrac(items, capacity, Append(rows, row))

\* the backtracking loop with c a double: dp[i][c] !== dp[i - 1][c] compares
\* undefined with undefined when c is not an integer
RECURSIVE backtrackFrac(_, _, _, _, _)
backtrackFrac(items, rows, i, c, selected) ==
    IF i < 1 THEN selected
    ELSE IF IsIntegerDbl(c) /\ dpChanged(rows, i, ToInt32(c))
         THEN backtrackFrac(items, rows, i - 1,
                            fsubInt(ToInt32(c), items[i].weight),
                            Append(selected, items[i]))
         ELSE backtrackFrac(items, rows, i - 1, c, selected)

RECURSIVE SumWeightFrac(_)
SumWeightFrac(s) ==
    IF s = <<>> THEN toDbl(0)
    ELSE fadd(SumWeightFrac(SubSeq(s, 1, Len(s) - 1)), s[Len(s)].weight)

solveKnapsackFrac(items, capacity) ==
    LET rows     == dpFillFrac(items, capacity, <<[c \in 0..capacity |-> 0]>>)
        selected == Reverse(backtrackFrac(items, rows, Len(items),
                                          toDbl(capacity), <<>>))
    IN  [value  |-> rows[Len(items) + 1][capacity],
         weight |-> SumWeightFrac(selected),
         count  |-> Len(selected),
         items  |-> selected]

(***************************************************************************)
(* Greedy fill, bundle statistics, Sahni-k.                                *)
(***************************************************************************)
\* the comparator (b.value / b.weight) - (a.value / a.weight) is negative:
\* a sorts before b
RatioAbove(a, b) == a.value * b.weight > b.value * a.weight

\* Array.prototype.sort is stable: the indices by descending ratio, equal
\* ratios in index order
sortedIndices(items) ==
    LET n == Len(items)
        before(j, i) == \/ RatioAbove(items[j], items[i])
                        \/ (~RatioAbove(items[i], items[j]) /\ j < i)
        rank(i) == Cardinality({j \in 1..n : before(j, i)}) + 1
    IN  [r \in 1..n |-> CHOOSE i \in 1..n : rank(i) = r]

\* the fill loop over the sorted indices from position p on, skipping forced
RECURSIVE greedyFillFrom(_, _, _, _, _)
greedyFillFrom(items, order, p, forced, remCap) ==
    IF p > Len(order) THEN 0
    ELSE LET idx == order[p]
         IN  IF idx \in forced THEN greedyFillFrom(items, order, p + 1, forced, remCap)
             ELSE IF items[idx].weight <= remCap
                  THEN items[idx].value
                       + greedyFillFrom(items, order, p + 1, forced,
                                        remCap - items[idx].weight)
                  ELSE greedyFillFrom(items, order, p + 1, forced, remCap)

\* a faulty fill: the forced items are not skipped
greedyFillUnforced(items, forced, remCap) ==
    greedyFillFrom(items, sortedIndices(items), 1, {}, remCap)

greedyFill(items, forced, remCap) ==
    greedyFillFrom(items, sortedIndices(items), 1, forced, remCap)

greedyValue(items, capacity) == greedyFill(items, {}, capacity)

\* greedyValue on items with integer weights and 2-decimal values: the
\* comparator subtracts the quotients value / weight, the total is a sum of
\* doubles in sorted order
RatioAboveCont(a, b) ==
    DblGt(fdiv(a.value, toDbl(a.weight)), fdiv(b.value, toDbl(b.weight)))

sortedCont(items) ==
    LET n == Len(items)
        before(j, i) == \/ RatioAboveCont(items[j], items[i])
                        \/ (~RatioAboveCont(items[i], items[j]) /\ j < i)
        rank(i) == Cardinality({j \in 1..n : before(j, i)}) + 1
    IN  [r \in 1..n |-> items[CHOOSE i \in 1..n : rank(i) = r]]

RECURSIVE greedyLoopCont(_, _, _, _)
greedyLoopCont(sorted, p, remCap, totalValue) ==
    IF p > Len(sorted) THEN totalValue
    ELSE IF sorted[p].weight <= remCap
         THEN greedyLoopCont(sorted, p + 1, remCap - sorted[p].weight,
                             fadd(totalValue, sorted[p].value))
         ELSE greedyLoopCont(sorted, p + 1, remCap, totalValue)

greedyValueCont(items, capacity) ==
    greedyLoopCont(sortedCont(items), 1, capacity, toDbl(0))

\* total weight / value of the items whose index is in the set S
RECURSIVE SetWeight(_, _)
SetWeight(items, S) ==
    IF S = {} THEN 0
    ELSE LET i == CHOOSE j \in S : TRUE
         IN  items[i].weight + SetWeight(items, S \ {i})

RECURSIVE SetValue(_, _)
SetValue(items, S) ==
    IF S = {} THEN 0
    ELSE LET i == CHOOSE j \in S : TRUE
         IN  items[i].value + SetValue(items, S \ {i})

\* a faulty count: the loop starts at mask 0, the empty set
countBundleStatsFromZero(items, capacity, optValue, alphaPercent) ==
    LET masks == SUBSET (1..Len(items))
        fits  == {S \in masks : SetWeight(items, S) <= capacity}
    IN  [feasible |-> Cardinality(fits),
         n90      |-> Cardinality({S \in fits :
                          SetValue(items, S) * 100 >= alphaPercent * optValue})]

\* the masks 1 .. 2^n - 1 are the non-empty index sets
countBundleStats(items, capacity, optValue, alphaPercent) ==
    LET masks == SUBSET (1..Len(items)) \ {{}}
        fits  == {S \in masks : SetWeight(items, S) <= capacity}
    IN  [feasible |-> Cardinality(fits),
         n90      |-> Cardinality({S \in fits :
                          SetValue(items, S) * 100 >= alphaPercent * optValue})]

\* the sentinel '> 6', held as the number 7 so that it compares with integers
MoreThanSix == 7

\* enumerate(0, 0) for a given k: some k-subset that fits reaches the optimum
sahniFound(items, capacity, optimalValue, k) ==
    \E forced \in SUBSET (1..Len(items)) :
        /\ Cardinality(forced) = k
        /\ SetWeight(items, forced) <= capacity
        /\ SetValue(items, forced)
             + greedyFill(items, forced, capacity - SetWeight(items, forced))
           >= optimalValue

\* a faulty loop over k: forced sets of more than one item are never tried
RECURSIVE sahniFromUpToOne(_, _, _, _)
sahniFromUpToOne(items, capacity, optimalValue, k) ==
    IF k > Min(Len(items), 1) THEN MoreThanSix
    ELSE IF sahniFound(items, capacity, optimalValue, k) THEN k
         ELSE sahniFromUpToOne(items, capacity, optimalValue, k + 1)

RECURSIVE sahniFrom(_, _, _, _)
sahniFrom(items, capacity, optimalValue, k) ==
    IF k > Min(Len(items), 6) THEN MoreThanSix
    ELSE IF sahniFound(items, capacity, optimalValue, k) THEN k
         ELSE sahniFrom(items, capacity, optimalValue, k + 1)

\* a faulty Sahni-k: the pure-greedy test for k = 0 is left out
computeSahniKFromOne(items, capacity, optimalValue) ==
    sahniFrom(items, capacity, optimalValue, 1)

computeSahniK(items, capacity, optimalValue) ==
    IF greedyFill(items, {}, capacity) >= optimalValue THEN 0
    ELSE sahniFrom(items, capacity, optimalValue, 1)

\* totalVal of one enumerated subset: forcedValue plus the greedy fill of the
\* capacity the forced items leave
totalVal(items, capacity, forced) ==
    SetValue(items, forced)
      + greedyFill(items, forced, capacity - SetWeight(items, forced))

(***************************************************************************)
(* Configuration values.  A numeric option is the number that parseInt /   *)
(* parseFloat reads from it; a ceiling given as the decimal p/100 is held  *)
(* as the integer p.  A select's 'no_filter' option and an empty input's   *)
(* null are held as -1, which no numeric option takes.  A value that is an *)
(* object or null is a sequence of length one or zero.                     *)
(***************************************************************************)
NoFilter == -1
NULL == -1
Nothing == <<>>
Some(x) == <<x>>

\* Math.round((a + b) / 2) for integers a + b >= 0
RoundMid(a, b) == (a + b + 1) \div 2

RangeSeq(lo, hi) == [j \in 1..(hi - lo + 1) |-> lo + j - 1]

\* a faulty candidate loop: a Sahni-k below the target is taken as a match
RECURSIVE firstSahniAtMost(_, _, _, _)
firstSahniAtMost(items, candidates, p, targetK) ==
    IF p > Len(candidates) THEN Nothing
    ELSE LET c == candidates[p]
             k == computeSahniK(items, c, solveKnapsack(items, c).value)
         IN  IF k <= targetK THEN Some([capacity |-> c, sahniK |-> k])
             ELSE firstSahniAtMost(items, candidates, p + 1, targetK)

\* the for-of loop over the candidates: the first whose Sahni-k is the target
RECURSIVE firstSahniMatch(_, _, _, _)
firstSahniMatch(items, candidates, p, targetK) ==
    IF p > Len(candidates) THEN Nothing
    ELSE LET c == candidates[p]
             k == computeSahniK(items, c, solveKnapsack(items, c).value)
         IN  IF k = targetK THEN Some([capacity |-> c, sahniK |-> k])
             ELSE firstSahniMatch(items, candidates, p + 1, targetK)

\* a faulty choice: the first candidate
middleCandidateFirst(candidates) == candidates[1]

\* candidates[Math.floor(candidates.length / 2)] of a 0-based array
middleCandidate(candidates) == candidates[(Len(candidates) \div 2) + 1]

\* findCapacityInRange once the candidates are collected: null when there are
\* none, the middle one without a Sahni-k target, else the first match
chooseCandidate(items, candidates, targetSahniK) ==
    IF Len(candidates) = 0 THEN Nothing
    ELSE IF targetSahniK = NoFilter
         THEN Some([capacity |-> middleCandidate(candidates), sahniK |-> NULL])
    ELSE firstSahniMatch(items, candidates, 1, targetSahniK)

\* the capacities lo..hi whose optimal solution has targetOptSize items
\* (every capacity when no size is targeted)
sizeCandidates(items, lo, hi, targetOptSize) ==
    LET hasCount(c) == solveKnapsack(items, c).count = targetOptSize
    IN  IF targetOptSize = NoFilter THEN RangeSeq(lo, hi)
        ELSE SelectSeq(RangeSeq(lo, hi), hasCount)

\* the result object of the dual and batch pages: the choice with its solution
withSol(items, choice) ==
    IF choice = Nothing THEN Nothing
    ELSE Some([capacity |-> choice[1].capacity,
               sol      |-> solveKnapsack(items, choice[1].capacity),
               sahniK   |-> choice[1].sahniK])

(***************************************************************************)
(* State.                                                                  *)
(***************************************************************************)
VARIABLES
    page,             \* the page that is loaded: "single", "dual", "batch"
    config,           \* the configuration read by the running generate call
    pc,               \* where the running call is: "idle", "rejected",
                      \* "search", "built", "done"
    attempt,          \* the loop index of the seed search
    loc,              \* the locals of the seed search
    found,            \* the loop ended with a satisfying attempt
    generated,        \* the seeds generateItems was called with, in order
    currentInstance,  \* app.js: the stored result
    currentResult,    \* dual-app.js: the stored result
    allResults,       \* batch-app.js: the results pushed so far
    idx,              \* batch-app.js: generateBatch's instance counter
    itemTable,        \* the values of generateItems, tabulated (see ItemTable)
    fnIn,             \* the arguments of a direct call of a function
    fnOut,            \* what that call returned
    foundPairs,       \* budget-finder-app.js: the pairs found by the search
    stopRequested,    \* budget-finder-app.js: the flag the Stop button sets
    itemInputs,       \* budget-finder-app.js: what the item inputs hold
    dom               \* budget-finder-app.js: the Search and Stop buttons and
                      \* the number of rows of the pairs table

vars == <<page, config, pc, attempt, loc, found, generated, currentInstance,
          currentResult, allResults, idx, itemTable, fnIn, fnOut, foundPairs,
          stopRequested, itemInputs, dom>>

\* the stored results of the three pages, and the direct-call variables
stored == <<currentInstance, currentResult, allResults, idx>>
direct == <<itemTable, fnIn, fnOut>>
finder == <<foundPairs, stopRequested, itemInputs, dom>>

\* the variables of the budget-finder page on the other pages, where its
\* script is not loaded
FinderLoaded ==
    /\ foundPairs = <<>>
    /\ stopRequested = FALSE
    /\ itemInputs = <<>>
    /\ dom = [searchBtnDisabled |-> FALSE, stopBtnShown |-> FALSE, pairRows |-> 0]

(***************************************************************************)
(* Inputs.                                                                 *)
(***************************************************************************)
\* the attempt cap of the seed search, 10000 in the source, scaled down
MAX_ATTEMPTS == 3

\* the largest number of instances a batch asks for
MaxInstances == 2

\* "abc", "k7"
Seeds == {<<97, 98, 99>>, <<107, 55>>}

\* the part of a configuration generateItems reads: n items with uniform
\* integer prices in [wmin, wmax] and uniform integer values in [1, 6]
GenSet(n, wmin, wmax, seeds) ==
    [nItems : {n},
     weightDist : {"uniform"}, weightInt : {TRUE},
     weightParams : {[min |-> wmin, max |-> wmax]},
     valueDist : {"uniform"}, valueInt : {TRUE}, valueParams : {[min |-> 1, max |-> 6]},
     correlation : {"independent"}, ratioSpread : {"medium"},
     integerRatios : {FALSE},
     seed : seeds]

\* four items priced 1..4
GenConfigs == GenSet(4, 1, 4, Seeds)

\* two items, both priced 2
FixedPriceConfigs == GenSet(2, 2, 2, Seeds)

\* more items than the bundle statistics are computed for
LargeConfigs == GenSet(21, 1, 4, {<<97, 98, 99>>})

GenFields == {"nItems", "weightDist", "weightInt", "weightParams", "valueDist",
              "valueInt", "valueParams", "correlation", "ratioSpread",
              "integerRatios", "seed"}

\* [min, max] pairs, one of them with min > max and one above any sum of weights
BudgetRanges == {<<1, 6>>, <<1, 9>>, <<5, 12>>, <<20, 25>>, <<6, 2>>}

Extend(r, s) == [k \in (DOMAIN r) \cup (DOMAIN s) |-> IF k \in DOMAIN s THEN s[k] ELSE r[k]]

\* the seed of attempt k: the base seed, or base + "_" + k
attemptSeed(baseSeed, att) ==
    IF att = 0 THEN baseSeed ELSE baseSeed \o Underscore \o Digits(att)

\* generateBatch: the seed of instance number i
instanceSeedOf(baseSeed, i) ==
    IF i = 0 THEN baseSeed ELSE baseSeed \o InstSuffix \o Digits(i)

\* generateItems is a function of the fields above and the seed string.  An
\* operator is evaluated anew at every use, so its values for the seeds the
\* search can reach are tabulated once, in the initial state; itemTable
\* never changes.
SearchSeeds ==
    {attemptSeed(instanceSeedOf(sd, i), k) :
        sd \in Seeds, i \in 0..(MaxInstances - 1), k \in 0..(MAX_ATTEMPTS - 1)}

ItemTable ==
    [g \in GenConfigs \cup FixedPriceConfigs \cup LargeConfigs |->
        [sd \in SearchSeeds |-> generateItems(g, sd)]]

genPart(cfg) == [f \in GenFields |-> cfg[f]]

itemsFor(cfg, seedStr) == itemTable[genPart(cfg)][seedStr]

(***************************************************************************)
(* Single-budget page (app.js).                                            *)
(***************************************************************************)
\* a faulty findCapacityInRange: the window lo..hi is not tested for being
\* empty
findCapacityInRangeAnyWindow(items, budgetMin, budgetMax, targetOptSize, targetSahniK) ==
    LET lo == Max(1, budgetMin)
        hi == Min(budgetMax, SumWeight(items) - 1)
    IN  IF targetOptSize = NoFilter /\ targetSahniK = NoFilter
        THEN Some([capacity |-> RoundMid(lo, hi), sahniK |-> NULL])
        ELSE chooseCandidate(items, sizeCandidates(items, lo, hi, targetOptSize),
                             targetSahniK)

\* findCapacityInRange of app.js: { capacity, sahniK?, found: true } or null
findCapacityInRange(items, budgetMin, budgetMax, targetOptSize, targetSahniK) ==
    LET lo == Max(1, budgetMin)
        hi == Min(budgetMax, SumWeight(items) - 1)
    IN  IF lo > hi THEN Nothing
        ELSE IF targetOptSize = NoFilter /\ targetSahniK = NoFilter
             THEN Some([capacity |-> RoundMid(lo, hi), sahniK |-> NULL])
        ELSE chooseCandidate(items, sizeCandidates(items, lo, hi, targetOptSize),
                             targetSahniK)

\* a ratio num / den as the pair <<num, den>>; 0 is <<0, 1>>
Ratio(num, den) == <<num, den>>
RatioZero == <<0, 1>>
\* r >= p / 100  and  r > p / 100
RatioAtLeast(r, p) == r[1] * 100 >= p * r[2]
RatioOver(r, p) == r[1] * 100 > p * r[2]

\* greedyValue(items, capacity) / optVal, or 0 when optVal is 0
greedyRatio(items, capacity, optVal) ==
    IF optVal > 0 THEN Ratio(greedyValue(items, capacity), optVal) ELSE RatioZero

\* the same on 2-decimal values: the quotient as a double
greedyRatioCont(items, capacity, optVal) ==
    IF optVal > 0 /\ ~IsZero(greedyValueCont(items, capacity))
    THEN fdiv(greedyValueCont(items, capacity), toDbl(optVal))
    ELSE toDbl(0)

\* N90 brute force is only run for small n
canBruteForceN90(cfg) == cfg.nItems <= 20

\* a faulty greedy constraint: a ratio equal to the ceiling is let through
singleGreedyRejectsAbove(cfg, items, capacity, optVal) ==
    /\ cfg.greedyCap # NoFilter
    /\ optVal > 0
    /\ RatioOver(greedyRatio(items, capacity, optVal), cfg.greedyCap)

\* generateInstance, the greedy constraint of one attempt: rejected?
singleGreedyRejects(cfg, items, capacity, optVal) ==
    /\ cfg.greedyCap # NoFilter
    /\ optVal > 0
    /\ RatioAtLeast(greedyRatio(items, capacity, optVal), cfg.greedyCap)

\* a faulty bundle constraint: the feasible-count floor is not looked at
singleShareRejects(cfg, bs) ==
    /\ cfg.forgivenessCap # NoFilter
    /\ bs.feasible > 0
    /\ RatioOver(Ratio(bs.n90, bs.feasible), cfg.forgivenessCap)

\* generateInstance, the forgiveness / feasible-count constraints: rejected?
singleBundleRejects(cfg, bs) ==
    \/ /\ cfg.forgivenessCap # NoFilter
       /\ bs.feasible > 0
       /\ RatioOver(Ratio(bs.n90, bs.feasible), cfg.forgivenessCap)
    \/ /\ cfg.minFeasible # NULL
       /\ bs.feasible < cfg.minFeasible

\* the iteration after the greedy constraint: the bundle constraints
singleBundleStep(cfg, l, bs) ==
    IF ~canBruteForceN90(cfg) THEN [loc |-> l, found |-> TRUE]
    ELSE IF singleBundleRejects(cfg, bs) THEN [loc |-> l, found |-> FALSE]
    ELSE [loc |-> [l EXCEPT !.foundN90 = bs.n90, !.foundFeasible = bs.feasible],
          found |-> TRUE]

\* the iteration after the capacity is chosen: OPT and the greedy constraint
singleGreedyStep(cfg, l, optVal) ==
    IF singleGreedyRejects(cfg, l.items, l.capacity, optVal)
    THEN [loc |-> l, found |-> FALSE]
    ELSE singleBundleStep(cfg,
             [l EXCEPT !.foundGreedyRatio = greedyRatio(l.items, l.capacity, optVal)],
             countBundleStats(l.items, l.capacity, optVal, 90))

\* the iteration after findCapacityInRange has returned
singleCapacityStep(cfg, l, capacityResult) ==
    IF capacityResult = Nothing THEN [loc |-> l, found |-> FALSE]
    ELSE singleGreedyStep(cfg, [l EXCEPT !.capacity = capacityResult[1].capacity],
                          solveKnapsack(l.items, capacityResult[1].capacity).value)

\* one iteration of generateInstance's loop on the locals l:
\* the locals after it, and whether it ended in found = true; break
singleIteration(cfg, l, att) ==
    LET usedSeed == attemptSeed(cfg.seed, att)
        items    == itemsFor(cfg, usedSeed)
    IN  singleCapacityStep(cfg, [l EXCEPT !.usedSeed = usedSeed, !.items = items],
            findCapacityInRange(items, cfg.budgetMin, cfg.budgetMax,
                                cfg.optimalSize, cfg.targetSahniK))

\* the fallback capacity of generateInstance
singleFallbackCapacity(cfg, sumWeights) ==
    LET c1 == Min(cfg.budgetMax, sumWeights - 1)
        c2 == Max(cfg.budgetMin, c1)
    IN  IF c2 < 1 THEN 1 ELSE c2

\* the constraints the warning names
singleWarning(cfg) ==
    (IF cfg.optimalSize # NoFilter THEN <<"items in optimal">> ELSE <<>>)
    \o (IF cfg.targetSahniK # NoFilter THEN <<"Sahni-k">> ELSE <<>>)
    \o (IF cfg.greedyCap # NoFilter THEN <<"greedy">> ELSE <<>>)
    \o (IF cfg.forgivenessCap # NoFilter THEN <<"N90 share">> ELSE <<>>)
    \o (IF cfg.minFeasible # NULL THEN <<"feasible">> ELSE <<>>)

\* a faulty fallback: the warning is not set
singleFallbackSilent(cfg, l) ==
    LET items    == itemsFor(cfg, cfg.seed)
        capacity == singleFallbackCapacity(cfg, SumWeight(items))
        sol      == solveKnapsack(items, capacity)
        bs       == countBundleStats(items, capacity, sol.value, 90)
    IN  [usedSeed |-> cfg.seed,
         items    |-> items,
         capacity |-> capacity,
         foundGreedyRatio |-> greedyRatio(items, capacity, sol.value),
         foundN90      |-> IF canBruteForceN90(cfg) THEN bs.n90 ELSE l.foundN90,
         foundFeasible |-> IF canBruteForceN90(cfg) THEN bs.feasible
                           ELSE l.foundFeasible,
         warning  |-> l.warning]

\* the if (!found) block of generateInstance
singleFallback(cfg, l) ==
    LET items    == itemsFor(cfg, cfg.seed)
        capacity == singleFallbackCapacity(cfg, SumWeight(items))
        sol      == solveKnapsack(items, capacity)
        bs       == countBundleStats(items, capacity, sol.value, 90)
    IN  [usedSeed |-> cfg.seed,
         items    |-> items,
         capacity |-> capacity,
         foundGreedyRatio |-> greedyRatio(items, capacity, sol.value),
         foundN90      |-> IF canBruteForceN90(cfg) THEN bs.n90 ELSE l.foundN90,
         foundFeasible |-> IF canBruteForceN90(cfg) THEN bs.feasible
                           ELSE l.foundFeasible,
         warning  |-> Some(singleWarning(cfg))]

\* the result object generateInstance returns (the fields the claims read);
\* warning is set only when the local is
singleResult(cfg, l) ==
    [n_items        |-> cfg.nItems,
     budget         |-> l.capacity,
     seed           |-> l.usedSeed,
     seed_requested |-> cfg.seed,
     greedy_ratio   |-> l.foundGreedyRatio,
     n90            |-> l.foundN90,
     feasible_count |-> l.foundFeasible,
     items          |-> l.items,
     warning        |-> l.warning]

(***************************************************************************)
(* Dual-budget page (dual-app.js).                                         *)
(***************************************************************************)
\* findCapacityInRange of dual-app.js: { capacity, sol, sahniK } or null
findCapacityInRangeDual(items, budgetMin, budgetMax, targetOptSize, targetSahniK) ==
    LET lo == Max(1, budgetMin)
        hi == Min(budgetMax, SumWeight(items) - 1)
    IN  IF lo > hi THEN Nothing
        ELSE IF targetOptSize = NoFilter /\ targetSahniK = NoFilter
             THEN withSol(items, Some([capacity |-> RoundMid(lo, hi), sahniK |-> NULL]))
        ELSE withSol(items,
                     chooseCandidate(items, sizeCandidates(items, lo, hi, targetOptSize),
                                     targetSahniK))

\* a faulty greedy constraint: only the low budget is looked at
lowGreedyRejects(cfg, items, capLow, solLow, capHigh, solHigh) ==
    /\ cfg.greedyCap # NoFilter
    /\ RatioAtLeast(greedyRatio(items, capLow, solLow.value), cfg.greedyCap)

\* the greedy constraint on both budgets: rejected?
pairGreedyRejects(cfg, items, capLow, solLow, capHigh, solHigh) ==
    /\ cfg.greedyCap # NoFilter
    /\ \/ RatioAtLeast(greedyRatio(items, capLow, solLow.value), cfg.greedyCap)
       \/ RatioAtLeast(greedyRatio(items, capHigh, solHigh.value), cfg.greedyCap)

\* n90 / feasible, or 0 when nothing is feasible
share(bs) == IF bs.feasible > 0 THEN Ratio(bs.n90, bs.feasible) ELSE RatioZero

\* the forgiveness constraint on both budgets: rejected?
pairForgivenessRejects(cfg, bsL, bsH) ==
    /\ cfg.forgivenessCap # NoFilter
    /\ \/ RatioOver(share(bsL), cfg.forgivenessCap)
       \/ RatioOver(share(bsH), cfg.forgivenessCap)

\* the iteration after both capacities are chosen: the constraints at both
\* budgets, then the locals of a satisfying attempt
dualPairStep(cfg, l, lowResult, highResult) ==
    LET items   == l.items
        capLow  == lowResult.capacity
        capHigh == highResult.capacity
        solLow  == lowResult.sol
        solHigh == highResult.sol
    IN  IF pairGreedyRejects(cfg, items, capLow, solLow, capHigh, solHigh)
        THEN [loc |-> l, found |-> FALSE]
        ELSE IF /\ canBruteForceN90(cfg)
                /\ pairForgivenessRejects(cfg,
                       countBundleStats(items, capLow, solLow.value, 90),
                       countBundleStats(items, capHigh, solHigh.value, 90))
        THEN [loc |-> l, found |-> FALSE]
        ELSE [loc |-> [l EXCEPT !.bLow = capLow, !.bHigh = capHigh,
                                !.optLow = Some(solLow), !.optHigh = Some(solHigh),
                                !.sahniLow = lowResult.sahniK,
                                !.sahniHigh = highResult.sahniK],
              found |-> TRUE]

\* the iteration after the two calls of findCapacityInRange
dualCapacityStep(cfg, l, lowResult, highResult) ==
    IF lowResult = Nothing \/ highResult = Nothing
    THEN [loc |-> l, found |-> FALSE]
    ELSE dualPairStep(cfg, l, lowResult[1], highResult[1])

\* one iteration of the loop in generate()'s timer callback
dualIteration(cfg, l, att) ==
    LET usedSeed == attemptSeed(cfg.seed, att)
        items    == itemsFor(cfg, usedSeed)
    IN  dualCapacityStep(cfg, [l EXCEPT !.usedSeed = usedSeed, !.items = items],
            findCapacityInRangeDual(items, cfg.budgetLowMin, cfg.budgetLowMax,
                                    cfg.optimalSizeLow, cfg.sahniKLow),
            findCapacityInRangeDual(items, cfg.budgetHighMin, cfg.budgetHighMax,
                                    cfg.optimalSizeHigh, cfg.sahniKHigh))

\* the fallback capacity of the dual and batch pages: the midpoint of the
\* configured range, clamped into [1, sumWeights - 1]
midpointFallbackCapacity(budgetMin, budgetMax, sumWeights) ==
    Max(1, Min(RoundMid(budgetMin, budgetMax), sumWeights - 1))

dualWarning(cfg) ==
    (IF cfg.optimalSizeLow # NoFilter THEN <<"low optimal">> ELSE <<>>)
    \o (IF cfg.sahniKLow # NoFilter THEN <<"low Sahni-k">> ELSE <<>>)
    \o (IF cfg.optimalSizeHigh # NoFilter THEN <<"high optimal">> ELSE <<>>)
    \o (IF cfg.sahniKHigh # NoFilter THEN <<"high Sahni-k">> ELSE <<>>)
    \o (IF cfg.greedyCap # NoFilter THEN <<"greedy">> ELSE <<>>)
    \o (IF cfg.forgivenessCap # NoFilter THEN <<"N90 share">> ELSE <<>>)

\* the if (!found) block
dualFallback(cfg, l) ==
    LET items == itemsFor(cfg, cfg.seed)
        sumWeights == SumWeight(items)
        bLow  == midpointFallbackCapacity(cfg.budgetLowMin, cfg.budgetLowMax, sumWeights)
        bHigh == midpointFallbackCapacity(cfg.budgetHighMin, cfg.budgetHighMax, sumWeights)
    IN  [usedSeed |-> cfg.seed, items |-> items, bLow |-> bLow, bHigh |-> bHigh,
         optLow |-> Some(solveKnapsack(items, bLow)),
         optHigh |-> Some(solveKnapsack(items, bHigh)),
         sahniLow |-> NULL, sahniHigh |-> NULL,
         warning |-> Some(dualWarning(cfg))]

\* one of currentResult's optimal_low / optimal_high
optimalEntry(items, budget, opt, sahni) ==
    [budget |-> budget, value |-> opt.value, weight |-> opt.weight, count |-> opt.count,
     sahni_k |-> IF sahni = NULL THEN computeSahniK(items, budget, opt.value) ELSE sahni,
     item_ids |-> [j \in 1..Len(opt.items) |-> opt.items[j].id]]

\* the rest of the callback: Sahni-k where it is still null, the displayed
\* ratios and counts, and the stored currentResult
dualResult(cfg, l) ==
    LET bsLow  == countBundleStats(l.items, l.bLow, l.optLow[1].value, 90)
        bsHigh == countBundleStats(l.items, l.bHigh, l.optHigh[1].value, 90)
    IN  [n_items |-> cfg.nItems,
         seed |-> l.usedSeed,
         seed_requested |-> cfg.seed,
         budget_low |-> l.bLow,
         budget_high |-> l.bHigh,
         optimal_low |-> optimalEntry(l.items, l.bLow, l.optLow[1], l.sahniLow),
         optimal_high |-> optimalEntry(l.items, l.bHigh, l.optHigh[1], l.sahniHigh),
         greedyRatioLow |-> greedyRatio(l.items, l.bLow, l.optLow[1].value),
         greedyRatioHigh |-> greedyRatio(l.items, l.bHigh, l.optHigh[1].value),
         n90Low |-> IF canBruteForceN90(cfg) THEN bsLow.n90 ELSE NULL,
         n90High |-> IF canBruteForceN90(cfg) THEN bsHigh.n90 ELSE NULL,
         feasibleLow |-> IF canBruteForceN90(cfg) THEN bsLow.feasible ELSE NULL,
         feasibleHigh |-> IF canBruteForceN90(cfg) THEN bsHigh.feasible ELSE NULL,
         items |-> l.items,
         warning |-> l.warning]

(***************************************************************************)
(* Batch page (batch-app.js).                                              *)
(***************************************************************************)
\* a faulty value filter: the upper end is not looked at
valueAtLeastMin(v, minOptVal, maxOptVal) ==
    ~(minOptVal # NULL /\ v < minOptVal)

\* valueInRange of batch-app.js's findCapacityInRange
valueInRange(v, minOptVal, maxOptVal) ==
    /\ ~(minOptVal # NULL /\ v < minOptVal)
    /\ ~(maxOptVal # NULL /\ v > maxOptVal)

\* the candidate loop's two filters on the solution at one capacity
keepsCapacity(sol, anyOptTarget, optMin, optMax, minOptVal, maxOptVal) ==
    /\ ~(anyOptTarget /\ (sol.count < optMin \/ sol.count > optMax))
    /\ valueInRange(sol.value, minOptVal, maxOptVal)

\* findCapacityInRange of batch-app.js: { capacity, sol, sahniK } or null
findCapacityInRangeBatch(items, budgetMin, budgetMax, optMin, optMax, targetSahniK, minOptVal, maxOptVal) ==
    LET lo == Max(1, budgetMin)
        hi == Min(budgetMax, SumWeight(items) - 1)
        anyOptTarget == optMin # NULL /\ optMax # NULL
        keeps(c) == keepsCapacity(solveKnapsack(items, c), anyOptTarget, optMin, optMax,
                                  minOptVal, maxOptVal)
    IN  IF lo > hi THEN Nothing
        ELSE withSol(items,
                     chooseCandidate(items, SelectSeq(RangeSeq(lo, hi), keeps),
                                     targetSahniK))

\* the min-feasible constraint on both budgets: rejected?
pairMinFeasibleRejects(cfg, bsL, bsH) ==
    /\ cfg.minFeasible # NULL
    /\ (bsL.feasible < cfg.minFeasible \/ bsH.feasible < cfg.minFeasible)

\* the object generateSingleInstance returns; warning is absent on the found path
batchResult(cfg, usedSeed, items, capLow, capHigh, solLow, solHigh, sahniLow, sahniHigh, warning) ==
    LET bsLow  == countBundleStats(items, capLow, solLow.value, 90)
        bsHigh == countBundleStats(items, capHigh, solHigh.value, 90)
    IN  [seed |-> usedSeed,
         items |-> items,
         budgetLow |-> capLow,
         budgetHigh |-> capHigh,
         optLow |-> solLow,
         optHigh |-> solHigh,
         sahniLow |-> IF sahniLow # NULL THEN sahniLow
                      ELSE computeSahniK(items, capLow, solLow.value),
         sahniHigh |-> IF sahniHigh # NULL THEN sahniHigh
                       ELSE computeSahniK(items, capHigh, solHigh.value),
         greedyRatioLow |-> greedyRatio(items, capLow, solLow.value),
         greedyRatioHigh |-> greedyRatio(items, capHigh, solHigh.value),
         n90Low |-> IF canBruteForceN90(cfg) THEN bsLow.n90 ELSE NULL,
         n90High |-> IF canBruteForceN90(cfg) THEN bsHigh.n90 ELSE NULL,
         feasibleLow |-> IF canBruteForceN90(cfg) THEN bsLow.feasible ELSE NULL,
         feasibleHigh |-> IF canBruteForceN90(cfg) THEN bsHigh.feasible ELSE NULL,
         warning |-> warning]

\* the iteration after bestFallback is remembered: the greedy and bundle
\* constraints at both budgets, then the returned object
batchPairStep(cfg, l, fb, bsL, bsH) ==
    IF pairGreedyRejects(cfg, fb.items, fb.capLow, fb.solLow, fb.capHigh, fb.solHigh)
    THEN [loc |-> l, found |-> FALSE]
    ELSE IF /\ canBruteForceN90(cfg)
            /\ \/ pairForgivenessRejects(cfg, bsL, bsH)
               \/ pairMinFeasibleRejects(cfg, bsL, bsH)
    THEN [loc |-> l, found |-> FALSE]
    ELSE [loc |-> [l EXCEPT !.result =
                      Some(batchResult(cfg, fb.usedSeed, fb.items, fb.capLow, fb.capHigh,
                                       fb.solLow, fb.solHigh, fb.lowResult.sahniK,
                                       fb.highResult.sahniK, Nothing))],
          found |-> TRUE]

\* a faulty near-miss record: every structural pass overwrites bestFallback
batchNearMissStepLatest(cfg, l, near) ==
    batchPairStep(cfg,
        [l EXCEPT !.bestFallback = Some(near)],
        near,
        countBundleStats(near.items, near.capLow, near.solLow.value, 90),
        countBundleStats(near.items, near.capHigh, near.solHigh.value, 90))

\* the iteration after both capacities are chosen; near is this attempt as
\* bestFallback would hold it
batchNearMissStep(cfg, l, near) ==
    batchPairStep(cfg,
        IF l.bestFallback = Nothing THEN [l EXCEPT !.bestFallback = Some(near)] ELSE l,
        near,
        countBundleStats(near.items, near.capLow, near.solLow.value, 90),
        countBundleStats(near.items, near.capHigh, near.solHigh.value, 90))

\* the iteration after the two calls of findCapacityInRange
batchCapacityStep(cfg, l, usedSeed, items, lowResult, highResult) ==
    IF lowResult = Nothing \/ highResult = Nothing
    THEN [loc |-> l, found |-> FALSE]
    ELSE batchNearMissStep(cfg, l,
             [usedSeed |-> usedSeed, items |-> items,
              lowResult |-> lowResult[1], highResult |-> highResult[1],
              capLow |-> lowResult[1].capacity, capHigh |-> highResult[1].capacity,
              solLow |-> lowResult[1].sol, solHigh |-> highResult[1].sol])

\* one iteration of generateSingleInstance's loop: the locals after it, and
\* whether it returned
batchIteration(cfg, l, instanceSeed, att) ==
    LET usedSeed == attemptSeed(instanceSeed, att)
        items    == itemsFor(cfg, usedSeed)
    IN  batchCapacityStep(cfg, l, usedSeed, items,
            findCapacityInRangeBatch(items, cfg.budgetLowMin, cfg.budgetLowMax,
                cfg.optLowMin, cfg.optLowMax, cfg.sahniKLow,
                cfg.minOptValLow, cfg.maxOptValLow),
            findCapacityInRangeBatch(items, cfg.budgetHighMin, cfg.budgetHighMax,
                cfg.optHighMin, cfg.optHighMax, cfg.sahniKHigh,
                cfg.minOptValHigh, cfg.maxOptValHigh))

\* the code after the loop of generateSingleInstance
batchFallback(cfg, l, instanceSeed) ==
    LET fb == l.bestFallback
        hasFb == fb # Nothing
        fbItems == IF hasFb THEN fb[1].items ELSE itemsFor(cfg, instanceSeed)
        fbSumW == SumWeight(fbItems)
        fbCapLow == IF hasFb THEN fb[1].capLow
                    ELSE midpointFallbackCapacity(cfg.budgetLowMin, cfg.budgetLowMax, fbSumW)
        fbCapHigh == IF hasFb THEN fb[1].capHigh
                     ELSE midpointFallbackCapacity(cfg.budgetHighMin, cfg.budgetHighMax, fbSumW)
        fbSolLow == IF hasFb THEN fb[1].solLow ELSE solveKnapsack(fbItems, fbCapLow)
        fbSolHigh == IF hasFb THEN fb[1].solHigh ELSE solveKnapsack(fbItems, fbCapHigh)
        fbSeed == IF hasFb THEN fb[1].usedSeed ELSE instanceSeed
    IN  batchResult(cfg, fbSeed, fbItems, fbCapLow, fbCapHigh, fbSolLow, fbSolHigh,
                    IF hasFb THEN fb[1].lowResult.sahniK ELSE NULL,
                    IF hasFb THEN fb[1].highResult.sahniK ELSE NULL,
                    Some(IF hasFb THEN "relaxed" ELSE "plain"))

SingleConfigs ==
    {Extend(g, [budgetMin |-> b[1], budgetMax |-> b[2], optimalSize |-> o,
                targetSahniK |-> k, greedyCap |-> gc, forgivenessCap |-> fc,
                minFeasible |-> mf]) :
        g \in GenConfigs, b \in BudgetRanges, o \in {NoFilter, 1, 2},
        k \in {NoFilter, 0, 1}, gc \in {NoFilter, 80}, fc \in {NoFilter, 20},
        mf \in {NULL, 6}}
    \cup
    {Extend(g, [budgetMin |-> 1, budgetMax |-> 3, optimalSize |-> NoFilter,
                targetSahniK |-> NoFilter, greedyCap |-> gc,
                forgivenessCap |-> NoFilter, minFeasible |-> NULL]) :
        g \in FixedPriceConfigs, gc \in {NoFilter, 80}}
    \cup
    {Extend(g, [budgetMin |-> 1, budgetMax |-> 1, optimalSize |-> NoFilter,
                targetSahniK |-> NoFilter, greedyCap |-> NoFilter,
                forgivenessCap |-> fc, minFeasible |-> mf]) :
        g \in LargeConfigs, fc \in {NoFilter, 20}, mf \in {NULL, 100}}

SingleLocals(baseSeed) ==
    [usedSeed |-> baseSeed, items |-> <<>>, capacity |-> NULL,
     foundGreedyRatio |-> Nothing, foundN90 |-> NULL, foundFeasible |-> NULL,
     warning |-> Nothing]

\* <<low range, high range>>: two that can be met, one with low min > max, one
\* with high min > max, one whose high range is above any sum of weights
BudgetPairs ==
    {<< <<1, 4>>, <<5, 8>> >>, << <<3, 5>>, <<6, 8>> >>, << <<6, 2>>, <<5, 8>> >>,
     << <<1, 4>>, <<9, 5>> >>, << <<1, 4>>, <<20, 25>> >>}

\* <<optimalSizeLow, sahniKLow, optimalSizeHigh, sahniKHigh>>
DualTargets ==
    {<<NoFilter, NoFilter, NoFilter, NoFilter>>, <<1, NoFilter, 3, NoFilter>>,
     <<NoFilter, 1, NoFilter, 2>>, <<2, 1, NoFilter, NoFilter>>,
     <<NoFilter, NoFilter, 2, 0>>, <<4, NoFilter, NoFilter, NoFilter>>}

DualConfigs ==
    {Extend(g, [budgetLowMin |-> b[1][1], budgetLowMax |-> b[1][2],
                budgetHighMin |-> b[2][1], budgetHighMax |-> b[2][2],
                optimalSizeLow |-> t[1], sahniKLow |-> t[2],
                optimalSizeHigh |-> t[3], sahniKHigh |-> t[4],
                greedyCap |-> gc, forgivenessCap |-> fc]) :
        g \in GenConfigs, b \in BudgetPairs, t \in DualTargets,
        gc \in {NoFilter, 90}, fc \in {NoFilter, 20}}

DualLocals(baseSeed) ==
    [usedSeed |-> baseSeed, items |-> <<>>, bLow |-> NULL, bHigh |-> NULL,
     optLow |-> Nothing, optHigh |-> Nothing, sahniLow |-> NULL, sahniHigh |-> NULL,
     warning |-> Nothing]

\* <<optLowMin, optLowMax, optHighMin, optHighMax>>
OptRanges ==
    {<<0, 4, 0, 4>>, <<1, 2, 2, 3>>, <<2, 1, 0, 4>>, <<0, 4, 3, 2>>, <<4, 4, 0, 4>>}

\* <<minOptValLow, maxOptValLow, minOptValHigh, maxOptValHigh>>
ValueRanges ==
    {<<NULL, NULL, NULL, NULL>>, <<NULL, 8, 10, NULL>>, <<9, 5, NULL, NULL>>}

\* <<greedyCap, forgivenessCap, minFeasible>>
BatchCaps ==
    {<<NoFilter, NoFilter, NULL>>, <<90, NoFilter, NULL>>, <<NoFilter, 20, NULL>>,
     <<NoFilter, NoFilter, 6>>, <<90, 20, 6>>}

BatchConfigs ==
    {Extend(g, [nInstances |-> ni,
                budgetLowMin |-> b[1][1], budgetLowMax |-> b[1][2],
                budgetHighMin |-> b[2][1], budgetHighMax |-> b[2][2],
                optLowMin |-> o[1], optLowMax |-> o[2],
                optHighMin |-> o[3], optHighMax |-> o[4],
                sahniKLow |-> k[1], sahniKHigh |-> k[2],
                minOptValLow |-> v[1], maxOptValLow |-> v[2],
                minOptValHigh |-> v[3], maxOptValHigh |-> v[4],
                greedyCap |-> c[1], forgivenessCap |-> c[2], minFeasible |-> c[3]]) :
        g \in GenConfigs, ni \in 1..MaxInstances, b \in BudgetPairs, o \in OptRanges,
        k \in {<<NoFilter, NoFilter>>, <<1, 0>>}, v \in ValueRanges, c \in BatchCaps}

BatchLocals == [bestFallback |-> Nothing, result |-> Nothing]

(***************************************************************************)
(* The single-budget page.  generateInstance runs inside one timer         *)
(* callback; its loop is unrolled here one iteration per step, and pc      *)
(* leaves no other step enabled until the callback has stored its result.  *)
(***************************************************************************)
\* generate(): the click handler up to the timer it sets
SingleGenerate ==
    /\ page = "single"
    /\ pc = "idle"
    /\ \E c \in SingleConfigs :
          /\ config' = Some(c)
          /\ IF c.budgetMin > c.budgetMax
             THEN /\ pc' = "rejected"
                  /\ UNCHANGED <<loc, attempt>>
             ELSE /\ pc' = "search"
                  /\ loc' = Some(SingleLocals(c.seed))
                  /\ attempt' = 0
    /\ UNCHANGED <<page, found, generated, stored, direct, finder>>

\* a faulty loop: no break after a satisfying attempt
SingleAttemptNoBreak ==
    /\ page = "single"
    /\ pc = "search"
    /\ attempt < MAX_ATTEMPTS
    /\ \E r \in {singleIteration(config[1], loc[1], attempt)} :
           /\ loc' = Some(r.loc)
           /\ found' = (found \/ r.found)
           /\ generated' = Append(generated, r.loc.usedSeed)
           /\ attempt' = attempt + 1
    /\ UNCHANGED <<page, config, pc, stored, direct, finder>>

\* generateInstance: one iteration of the for loop
SingleAttempt ==
    /\ page = "single"
    /\ pc = "search"
    /\ ~found
    /\ attempt < MAX_ATTEMPTS
    /\ \E r \in {singleIteration(config[1], loc[1], attempt)} :
           /\ loc' = Some(r.loc)
           /\ found' = r.found
           /\ generated' = Append(generated, r.loc.usedSeed)
           /\ attempt' = IF r.found THEN attempt ELSE attempt + 1
    /\ UNCHANGED <<page, config, pc, stored, direct, finder>>

\* a faulty end of the loop: with no attempt accepted the search starts over
\* instead of falling back
SingleBuildRetry ==
    /\ page = "single"
    /\ pc = "search"
    /\ found \/ attempt >= MAX_ATTEMPTS
    /\ IF found
       THEN pc' = "built" /\ UNCHANGED <<loc, attempt, generated>>
       ELSE /\ loc' = Some(SingleLocals(config[1].seed))
            /\ attempt' = 0
            /\ generated' = <<>>
            /\ UNCHANGED pc
    /\ UNCHANGED <<page, config, found, stored, direct, finder>>

\* generateInstance: the loop has ended; the fallback when nothing was found,
\* then the result object
SingleBuild ==
    /\ page = "single"
    /\ pc = "search"
    /\ found \/ attempt >= MAX_ATTEMPTS
    /\ loc' = IF found THEN loc ELSE Some(singleFallback(config[1], loc[1]))
    /\ generated' = IF found THEN generated ELSE Append(generated, config[1].seed)
    /\ pc' = "built"
    /\ UNCHANGED <<page, config, attempt, found, stored, direct, finder>>

\* generate(): the timer callback stores what generateInstance returned
SingleStore ==
    /\ page = "single"
    /\ pc = "built"
    /\ currentInstance' = Some(singleResult(config[1], loc[1]))
    /\ pc' = "done"
    /\ UNCHANGED <<page, config, attempt, loc, found, generated, currentResult,
                   allResults, idx, direct, finder>>

(***************************************************************************)
(* The dual-budget page: the same unrolling of the timer callback.         *)
(***************************************************************************)
\* generate(): the click handler up to the timer it sets
DualGenerate ==
    /\ page = "dual"
    /\ pc = "idle"
    /\ \E c \in DualConfigs :
          /\ config' = Some(c)
          /\ IF c.budgetLowMin > c.budgetLowMax \/ c.budgetHighMin > c.budgetHighMax
             THEN /\ pc' = "rejected"
                  /\ UNCHANGED <<loc, attempt>>
             ELSE /\ pc' = "search"
                  /\ loc' = Some(DualLocals(c.seed))
                  /\ attempt' = 0
    /\ UNCHANGED <<page, found, generated, stored, direct, finder>>

\* the timer callback: one iteration of the for loop
DualAttempt ==
    /\ page = "dual"
    /\ pc = "search"
    /\ ~found
    /\ attempt < MAX_ATTEMPTS
    /\ \E r \in {dualIteration(config[1], loc[1], attempt)} :
           /\ loc' = Some(r.loc)
           /\ found' = r.found
           /\ generated' = Append(generated, r.loc.usedSeed)
           /\ attempt' = IF r.found THEN attempt ELSE attempt + 1
    /\ UNCHANGED <<page, config, pc, stored, direct, finder>>

\* the timer callback after the loop: the fallback when nothing was found,
\* then the displayed values and the stored result
DualFinish ==
    /\ page = "dual"
    /\ pc = "search"
    /\ found \/ attempt >= MAX_ATTEMPTS
    /\ \E l \in {IF found THEN loc[1] ELSE dualFallback(config[1], loc[1])} :
           /\ loc' = Some(l)
           /\ currentResult' = Some(dualResult(config[1], l))
    /\ generated' = IF found THEN generated ELSE Append(generated, config[1].seed)
    /\ pc' = "done"
    /\ UNCHANGED <<page, config, attempt, found, currentInstance, allResults, idx,
                   direct, finder>>

(***************************************************************************)
(* The batch page.  Each instance is generated in a timer callback of its  *)
(* own (nextInstance); generateSingleInstance's loop is unrolled.          *)
(***************************************************************************)
\* generateBatch(): the click handler up to the timer it sets
BatchGenerate ==
    /\ page = "batch"
    /\ pc = "idle"
    /\ \E c \in BatchConfigs :
          /\ config' = Some(c)
          /\ IF \/ c.budgetLowMin > c.budgetLowMax
                \/ c.budgetHighMin > c.budgetHighMax
                \/ c.optLowMin > c.optLowMax
                \/ c.optHighMin > c.optHighMax
             THEN /\ pc' = "rejected"
                  /\ UNCHANGED <<allResults, idx>>
             ELSE /\ pc' = "next"
                  /\ allResults' = <<>>
                  /\ idx' = 0
    /\ UNCHANGED <<page, attempt, loc, found, generated, currentInstance,
                   currentResult, direct, finder>>

\* nextInstance: another instance is due; generateSingleInstance is entered
BatchNextInstance ==
    /\ page = "batch"
    /\ pc = "next"
    /\ idx < config[1].nInstances
    /\ loc' = Some(BatchLocals)
    /\ attempt' = 0
    /\ found' = FALSE
    /\ pc' = "search"
    /\ UNCHANGED <<page, config, generated, stored, direct, finder>>

\* generateSingleInstance: one iteration of the for loop
BatchAttempt ==
    /\ page = "batch"
    /\ pc = "search"
    /\ ~found
    /\ attempt < MAX_ATTEMPTS
    /\ \E r \in {batchIteration(config[1], loc[1],
                                 instanceSeedOf(config[1].seed, idx), attempt)} :
           /\ loc' = Some(r.loc)
           /\ found' = r.found
           /\ generated' = Append(generated,
                  attemptSeed(instanceSeedOf(config[1].seed, idx), attempt))
           /\ attempt' = IF r.found THEN attempt ELSE attempt + 1
    /\ UNCHANGED <<page, config, pc, stored, direct, finder>>

\* generateSingleInstance returns, from the loop or from the fallback, and
\* nextInstance pushes the result and counts
BatchPush ==
    /\ page = "batch"
    /\ pc = "search"
    /\ found \/ attempt >= MAX_ATTEMPTS
    /\ LET instanceSeed == instanceSeedOf(config[1].seed, idx)
           result == IF found THEN loc[1].result[1]
                     ELSE batchFallback(config[1], loc[1], instanceSeed)
       IN  /\ allResults' = Append(allResults, result)
           /\ generated' = IF found \/ loc[1].bestFallback # Nothing THEN generated
                           ELSE Append(generated, instanceSeed)
    /\ idx' = idx + 1
    /\ pc' = "next"
    /\ UNCHANGED <<page, config, attempt, loc, found, currentInstance,
                   currentResult, direct, finder>>

\* nextInstance: all instances are generated
BatchDone ==
    /\ page = "batch"
    /\ pc = "next"
    /\ idx >= config[1].nInstances
    /\ pc' = "done"
    /\ UNCHANGED <<page, config, attempt, loc, found, generated, stored, direct, finder>>

Init ==
    /\ page \in {"single", "dual", "batch"}
    /\ config = Nothing
    /\ pc = "idle"
    /\ attempt = 0
    /\ loc = Nothing
    /\ found = FALSE
    /\ generated = <<>>
    /\ currentInstance = Nothing
    /\ currentResult = Nothing
    /\ allResults = <<>>
    /\ idx = 0
    /\ itemTable = ItemTable
    /\ fnIn = Nothing
    /\ fnOut = Nothing
    /\ FinderLoaded

Next ==
    \/ SingleGenerate
    \/ SingleAttempt
    \/ SingleBuild
    \/ SingleStore
    \/ DualGenerate
    \/ DualAttempt
    \/ DualFinish
    \/ BatchGenerate
    \/ BatchNextInstance
    \/ BatchAttempt
    \/ BatchPush
    \/ BatchDone

Spec == Init /\ [][Next]_vars

\* the steps of a search between its entry and its return
SearchStep ==
    \/ SingleAttempt
    \/ SingleBuild
    \/ DualAttempt
    \/ DualFinish
    \/ BatchAttempt
    \/ BatchPush

\* A search is synchronous code inside one timer callback: once the callback
\* is entered, the loop takes its next iteration, and the code after the loop
\* runs, without waiting for any event.  The second conjunct is
\* WF_vars(SearchStep) written out: a step of the search is enabled exactly
\* when pc = "search" (one of the six steps has its guard true, and each
\* changes pc or adds to generated).  The clicks (the ...Generate steps) and
\* the timer of the next batch instance are left without fairness.
SpecRunToCompletion ==
    /\ Spec
    /\ WF_vars(SingleStore)
    /\ <>[](pc = "search") => []<><<SearchStep>>_vars

(***************************************************************************)
(* Direct calls of the solver, on every small item list.                   *)
(***************************************************************************)
MaxItems == 3
MaxCapacity == 7
ItemWeights == {1, 2, 3}
ItemValues == {1, 2, 4}

ItemLists ==
    UNION {{[i \in 1..n |-> [id |-> i, weight |-> f[i][1], value |-> f[i][2]]] :
               f \in [1..n -> ItemWeights \X ItemValues]} : n \in 0..MaxItems}

InitSolve ==
    /\ page = "none"
    /\ config = Nothing
    /\ pc = "idle"
    /\ attempt = 0
    /\ loc = Nothing
    /\ found = FALSE
    /\ generated = <<>>
    /\ currentInstance = Nothing
    /\ currentResult = Nothing
    /\ allResults = <<>>
    /\ idx = 0
    /\ itemTable = <<>>
    /\ fnIn \in {Some([items |-> its, capacity |-> c]) :
                    its \in ItemLists, c \in 0..MaxCapacity}
    /\ fnOut = Nothing
    /\ FinderLoaded

CallSolveKnapsack ==
    /\ fnIn # Nothing
    /\ fnOut = Nothing
    /\ fnOut' = Some(solveKnapsack(fnIn[1].items, fnIn[1].capacity))
    /\ UNCHANGED <<page, config, pc, attempt, loc, found, generated, stored,
                   itemTable, fnIn, finder>>

NextSolve == CallSolveKnapsack

SpecSolve == InitSolve /\ [][NextSolve]_vars

(***************************************************************************)
(* Direct calls of the generator: generateItems is called MaxRuns times    *)
(* with one configuration and seed, one loop round at a step.  loc holds   *)
(* the locals of the call (the closure state of rng, the items so far and  *)
(* the loop index) and keeps them after the return; fnOut is the sequence  *)
(* of the item lists returned.                                             *)
(***************************************************************************)
MaxRuns == 2

\* "abc", "k7" and their first retry seeds "abc_1", "k7_1"
GenSeeds == {attemptSeed(sd, k) : sd \in Seeds, k \in 0..1}

\* four items, uniform weights in 1..4 (integer) or [0, 2] (continuous) and
\* uniform values in 1..6 or [1, 6], with every combination of the flags
ModeConfigs ==
    {[nItems |-> 4,
      weightDist |-> "uniform", weightInt |-> wi,
      weightParams |-> IF wi THEN [min |-> 1, max |-> 4] ELSE [min |-> 0, max |-> 2],
      valueDist |-> "uniform", valueInt |-> vi, valueParams |-> [min |-> 1, max |-> 6],
      correlation |-> "independent", ratioSpread |-> "medium",
      integerRatios |-> ir, seed |-> sd] :
        wi \in BOOLEAN, vi \in BOOLEAN, ir \in BOOLEAN, sd \in GenSeeds}

\* a closure that is not made anew: it goes on from the state the call before
\* left
startRngKept(prev, seedStr) ==
    IF prev = Nothing THEN hashSeed(seedStr) ELSE prev[1].rng

\* const rng = mulberry32(hashSeed(seedStr)): every call makes its own
\* closure from the seed; the locals of the call before (prev) are not read
startRng(prev, seedStr) == hashSeed(seedStr)

InitGen ==
    /\ page = "none"
    /\ config = Nothing
    /\ pc = "idle"
    /\ attempt = 0
    /\ loc = Nothing
    /\ found = FALSE
    /\ generated = <<>>
    /\ currentInstance = Nothing
    /\ currentResult = Nothing
    /\ allResults = <<>>
    /\ idx = 0
    /\ itemTable = <<>>
    /\ fnIn \in {Some(g) : g \in ModeConfigs}
    /\ fnOut = <<>>
    /\ FinderLoaded

GenCall ==
    /\ pc = "idle"
    /\ Len(fnOut) < MaxRuns
    /\ pc' = "weights"
    /\ loc' = Some([items |-> <<>>, i |-> 0, rng |-> startRng(loc, fnIn[1].seed)])
    /\ UNCHANGED <<page, config, attempt, found, generated, stored, direct, finder>>

\* one round of the first loop: a weight is drawn and the item pushed
GenWeight ==
    /\ pc = "weights"
    /\ \E d \in {mulberry32(loc[1].rng)} :
          LET it == [id |-> loc[1].i + 1, weight |-> weightOf(fnIn[1], d.bits), value |-> 0]
              n  == loc[1].i + 1
          IN  /\ loc' = Some([items |-> Append(loc[1].items, it),
                               i |-> IF n = fnIn[1].nItems THEN 0 ELSE n,
                               rng |-> d.state])
              /\ pc' = IF n = fnIn[1].nItems THEN "values" ELSE "weights"
    /\ UNCHANGED <<page, config, attempt, found, generated, stored, direct, finder>>

\* one round of the second loop: a value is drawn for item i
GenValue ==
    /\ pc = "values"
    /\ \E d \in {mulberry32(loc[1].rng)} :
          LET n == loc[1].i + 1
          IN  /\ loc' = Some([items |-> [loc[1].items EXCEPT
                                             ![n].value = valueOf(fnIn[1], d.bits)],
                               i |-> IF n = fnIn[1].nItems THEN 0 ELSE n,
                               rng |-> d.state])
              /\ pc' = IF n = fnIn[1].nItems THEN "snap" ELSE "values"
    /\ UNCHANGED <<page, config, attempt, found, generated, stored, direct, finder>>

\* the ratio spread is skipped (medium); one round of the integer-ratio loop
GenSnap ==
    /\ pc = "snap"
    /\ fnIn[1].integerRatios
    /\ loc[1].i < fnIn[1].nItems
    /\ \E ratio \in {ratioOf(fnIn[1], loc[1].items[loc[1].i + 1])} :
          LET n == loc[1].i + 1
          IN  loc' = Some([loc[1] EXCEPT
                              !.items[n].value =
                                  timesWeight(fnIn[1], ratio, loc[1].items[n].weight),
                              !.i = n])
    /\ UNCHANGED <<page, config, pc, attempt, found, generated, stored, direct, finder>>

\* return items
GenReturn ==
    /\ pc = "snap"
    /\ ~fnIn[1].integerRatios \/ loc[1].i = fnIn[1].nItems
    /\ pc' = "idle"
    /\ fnOut' = Append(fnOut, loc[1].items)
    /\ UNCHANGED <<page, config, attempt, loc, found, generated, stored,
                   itemTable, fnIn, finder>>

NextGen ==
    \/ GenCall
    \/ GenWeight
    \/ GenValue
    \/ GenSnap
    \/ GenReturn

SpecGen == InitGen /\ [][NextGen]_vars

(***************************************************************************)
(* Direct calls of the metrics, in the order generateInstance and the      *)
(* display make them for one item list and capacity: the solver, the       *)
(* greedy ratio, the bundle statistics, Sahni-k.  fnOut is the sequence of *)
(* the values returned so far.  The lists are the small lists of integer   *)
(* items and the generator's lists for integer weights and 2-decimal       *)
(* values; for the latter the model follows the calls up to the greedy     *)
(* ratio.                                                                  *)
(***************************************************************************)
\* seven items of weight 2 and value 3 and one of weight 1 and value 2: at
\* capacity 14 the optimum is the seven, and the greedy fill takes the eighth
DeepLists ==
    {[i \in 1..8 |-> [id |-> i,
                      weight |-> IF i = 8 THEN 1 ELSE 2,
                      value |-> IF i = 8 THEN 2 ELSE 3]]}

\* seven items of which one fills the capacity 2 * MaxCapacity alone and is
\* the optimum, one is light with the best ratio, and five are too poor
WideLists ==
    {[i \in 1..7 |-> [id |-> i,
                      weight |-> IF i = 2 THEN 1 ELSE 2 * MaxCapacity,
                      value |-> IF i = 1 THEN 20 ELSE IF i = 2 THEN 2 ELSE 1]]}

\* generateItems with integer weights and 2-decimal values; a weight, a double
\* holding an integer, is kept as the integer
ContLists ==
    {[i \in 1..g.nItems |->
         [id |-> i,
          weight |-> roundDbl(generateItems(g, g.seed)[i].weight),
          value |-> generateItems(g, g.seed)[i].value]] :
        g \in {h \in ModeConfigs : h.weightInt /\ ~h.valueInt}}

MetricInputs ==
    {[items |-> its, capacity |-> c, cont |-> FALSE] :
        its \in ItemLists, c \in 0..MaxCapacity}
    \cup {[items |-> its, capacity |-> 2 * MaxCapacity, cont |-> FALSE] :
             its \in DeepLists \cup WideLists}
    \cup {[items |-> its, capacity |-> c, cont |-> TRUE] :
             its \in ContLists, c \in 1..MaxCapacity}

InitMetrics ==
    /\ page = "none"
    /\ config = Nothing
    /\ pc = "idle"
    /\ attempt = 0
    /\ loc = Nothing
    /\ found = FALSE
    /\ generated = <<>>
    /\ currentInstance = Nothing
    /\ currentResult = Nothing
    /\ allResults = <<>>
    /\ idx = 0
    /\ itemTable = <<>>
    /\ fnIn \in {Some(g) : g \in MetricInputs}
    /\ fnOut = <<>>
    /\ FinderLoaded

\* const sol = solveKnapsack(items, capacity)
MetricsSolve ==
    /\ Len(fnOut) = 0
    /\ fnOut' = <<IF fnIn[1].cont
                   THEN solveKnapsackCont(fnIn[1].items, fnIn[1].capacity)
                   ELSE solveKnapsack(fnIn[1].items, fnIn[1].capacity)>>
    /\ UNCHANGED <<page, config, pc, attempt, loc, found, generated, stored,
                   itemTable, fnIn, finder>>

\* sol.value > 0 ? greedyValue(items, capacity) / sol.value : 0
MetricsGreedy ==
    /\ Len(fnOut) = 1
    /\ fnOut' = Append(fnOut,
                       IF fnIn[1].cont
                       THEN greedyRatioCont(fnIn[1].items, fnIn[1].capacity,
                                            fnOut[1].value)
                       ELSE greedyRatio(fnIn[1].items, fnIn[1].capacity,
                                        fnOut[1].value))
    /\ UNCHANGED <<page, config, pc, attempt, loc, found, generated, stored,
                   itemTable, fnIn, finder>>

\* countBundleStats(items, capacity, sol.value, 90)
MetricsBundle ==
    /\ Len(fnOut) = 2
    /\ ~fnIn[1].cont
    /\ fnOut' = Append(fnOut, countBundleStats(fnIn[1].items, fnIn[1].capacity,
                                               fnOut[1].value, 90))
    /\ UNCHANGED <<page, config, pc, attempt, loc, found, generated, stored,
                   itemTable, fnIn, finder>>

\* computeSahniK(items, capacity, sol.value)
MetricsSahni ==
    /\ Len(fnOut) = 3
    /\ fnOut' = Append(fnOut, computeSahniK(fnIn[1].items, fnIn[1].capacity,
                                            fnOut[1].value))
    /\ UNCHANGED <<page, config, pc, attempt, loc, found, generated, stored,
                   itemTable, fnIn, finder>>

NextMetrics ==
    \/ MetricsSolve
    \/ MetricsGreedy
    \/ MetricsBundle
    \/ MetricsSahni

SpecMetrics == InitMetrics /\ [][NextMetrics]_vars

(***************************************************************************)
(* Direct calls of the capacity search: findCapacityInRange of app.js and  *)
(* of batch-app.js on one item list, budget range and set of targets.      *)
(* fnOut is the sequence of the values returned so far.                    *)
(***************************************************************************)
CapRanges == {<<1, MaxCapacity>>, <<2, 4>>}

\* targetOptSize (its range for the batch page is size..size + 1), the
\* Sahni-k target and the optimal-value range of the batch page
CapInputs ==
    {[items |-> its, budgetMin |-> r[1], budgetMax |-> r[2],
      targetOptSize |-> size, targetSahniK |-> k,
      minOptVal |-> v[1], maxOptVal |-> v[2]] :
        its \in ItemLists \ {<<>>}, r \in CapRanges, size \in {NoFilter, 1, 2},
        k \in {NoFilter, 0, 1}, v \in {<<NULL, NULL>>, <<3, 5>>}}

InitCap ==
    /\ page = "none"
    /\ config = Nothing
    /\ pc = "idle"
    /\ attempt = 0
    /\ loc = Nothing
    /\ found = FALSE
    /\ generated = <<>>
    /\ currentInstance = Nothing
    /\ currentResult = Nothing
    /\ allResults = <<>>
    /\ idx = 0
    /\ itemTable = <<>>
    /\ fnIn \in {Some(g) : g \in CapInputs}
    /\ fnOut = <<>>
    /\ FinderLoaded

\* findCapacityInRange(items, budgetMin, budgetMax, targetOptSize, targetSahniK)
CapSingle ==
    /\ Len(fnOut) = 0
    /\ fnOut' = <<findCapacityInRange(fnIn[1].items, fnIn[1].budgetMin,
                                      fnIn[1].budgetMax, fnIn[1].targetOptSize,
                                      fnIn[1].targetSahniK)>>
    /\ UNCHANGED <<page, config, pc, attempt, loc, found, generated, stored,
                   itemTable, fnIn, finder>>

\* batch-app.js: findCapacityInRange(items, budgetMin, budgetMax, optMin,
\* optMax, targetSahniK, minOptVal, maxOptVal)
CapBatch ==
    /\ Len(fnOut) = 1
    /\ fnOut' = Append(fnOut,
           findCapacityInRangeBatch(
               fnIn[1].items, fnIn[1].budgetMin, fnIn[1].budgetMax,
               IF fnIn[1].targetOptSize = NoFilter THEN NULL
               ELSE fnIn[1].targetOptSize,
               IF fnIn[1].targetOptSize = NoFilter THEN NULL
               ELSE fnIn[1].targetOptSize + 1,
               fnIn[1].targetSahniK, fnIn[1].minOptVal, fnIn[1].maxOptVal))
    /\ UNCHANGED <<page, config, pc, attempt, loc, found, generated, stored,
                   itemTable, fnIn, finder>>

NextCap ==
    \/ CapSingle
    \/ CapBatch

SpecCap == InitCap /\ [][NextCap]_vars

(***************************************************************************)
(* Direct calls of the solver on continuous weights: lists of up to        *)
(* MaxItems items with 2-decimal weights, and the lists of generateItems   *)
(* with continuous weights, at small integer capacities.                   *)
(***************************************************************************)
\* 0.5, 1.0, 1.5 and 2.37 as the generator's toFixed(2) makes them
FracWeights == {parseCents(c) : c \in {50, 100, 150, 237}}

FracItems == [weight : FracWeights, value : {toDbl(v) : v \in ItemValues}]

FracLists ==
    UNION {{[i \in 1..n |-> [id |-> i, weight |-> f[i].weight, value |-> f[i].value]] :
               f \in [1..n -> FracItems]} : n \in 1..MaxItems}

GeneratedFracLists ==
    {generateItems(g, g.seed) :
        g \in {h \in ModeConfigs : ~h.weightInt /\ ~h.integerRatios}}

FracInputs ==
    {[items |-> its, capacity |-> c] :
        its \in FracLists \cup GeneratedFracLists, c \in 0..3}

InitFrac ==
    /\ page = "none"
    /\ config = Nothing
    /\ pc = "idle"
    /\ attempt = 0
    /\ loc = Nothing
    /\ found = FALSE
    /\ generated = <<>>
    /\ currentInstance = Nothing
    /\ currentResult = Nothing
    /\ allResults = <<>>
    /\ idx = 0
    /\ itemTable = <<>>
    /\ fnIn \in {Some(g) : g \in FracInputs}
    /\ fnOut = Nothing
    /\ FinderLoaded

\* solveKnapsack(items, capacity)
CallSolveFrac ==
    /\ fnOut = Nothing
    /\ fnOut' = Some(solveKnapsackFrac(fnIn[1].items, fnIn[1].capacity))
    /\ UNCHANGED <<page, config, pc, attempt, loc, found, generated, stored,
                   itemTable, fnIn, finder>>

NextFrac == CallSolveFrac

SpecFrac == InitFrac /\ [][NextFrac]_vars

(***************************************************************************)
(* The budget-pair finder (budget-finder-app.js).  search() runs up to its *)
(* first timer in the click handler, first batch included; every later     *)
(* batch is a timer callback of its own, and the code after the await runs *)
(* right after the last batch.  A click on Stop, a click on a row of the   *)
(* pairs table and an edit of an item input are handled between two        *)
(* batches or after the search, never inside a batch.                      *)
(***************************************************************************)
\* const NUM_ITEMS = 12 and const BATCH_SIZE = 50, here with small values
NUM_ITEMS == 3
BATCH_SIZE == 2

\* the items the inputs hold; an empty input (parseInt gives NaN) is held as 0
getItems(inputs) ==
    IF \E i \in 1..NUM_ITEMS : inputs[i].weight <= 0 \/ inputs[i].value <= 0
    THEN Nothing
    ELSE Some([i \in 1..NUM_ITEMS |->
                  [id |-> i, weight |-> inputs[i].weight, value |-> inputs[i].value]])

\* checkBudget: { capacity, sol, sahniK } or null
checkBudget(items, cap, targetOptSize, targetSahniK) ==
    LET sol    == solveKnapsack(items, cap)
        sahniK == IF targetSahniK # NoFilter
                  THEN computeSahniK(items, cap, sol.value) ELSE NULL
    IN  IF targetOptSize # NoFilter /\ sol.count # targetOptSize THEN Nothing
        ELSE IF targetSahniK # NoFilter /\ sahniK # targetSahniK THEN Nothing
        ELSE Some([capacity |-> cap, sol |-> sol, sahniK |-> sahniK])

\* search: the loop that fills validLow, and the one that fills validHigh
RECURSIVE validBudgets(_, _, _, _, _)
validBudgets(items, c, hi, targetOptSize, targetSahniK) ==
    IF c > hi THEN <<>>
    ELSE checkBudget(items, c, targetOptSize, targetSahniK)
            \o validBudgets(items, c + 1, hi, targetOptSize, targetSahniK)

\* search: the range tests that end in an alert
searchRefused(cfg, items) ==
    \/ cfg.budgetLowMin > cfg.budgetLowMax
    \/ cfg.budgetHighMin > cfg.budgetHighMax
    \/ Max(1, cfg.budgetLowMin) > Min(cfg.budgetLowMax, SumWeight(items) - 1)
    \/ Max(1, cfg.budgetHighMin) > Min(cfg.budgetHighMax, SumWeight(items) - 1)

\* search: the locals processBatch closes over, before the first batch
searchLocals(cfg, items) ==
    LET validLow  == validBudgets(items, Max(1, cfg.budgetLowMin),
                                  Min(cfg.budgetLowMax, SumWeight(items) - 1),
                                  cfg.optimalSizeLow, cfg.sahniKLow)
        validHigh == validBudgets(items, Max(1, cfg.budgetHighMin),
                                  Min(cfg.budgetHighMax, SumWeight(items) - 1),
                                  cfg.optimalSizeHigh, cfg.sahniKHigh)
    IN  [items |-> items, validLow |-> validLow, validHigh |-> validHigh,
         totalPairs |-> Len(validLow) * Len(validHigh),
         checked |-> 0, startIdx |-> 0]

\* a faulty flattening: the high budget is the slow index
pairAtHighMajor(l, i) ==
    [low  |-> l.validLow[(i % Len(l.validLow)) + 1],
     high |-> l.validHigh[(i \div Len(l.validLow)) + 1]]

\* processBatch: li = Math.floor(idx / validHigh.length), hi = idx % validHigh.length
pairAt(l, i) ==
    [low  |-> l.validLow[(i \div Len(l.validHigh)) + 1],
     high |-> l.validHigh[(i % Len(l.validHigh)) + 1]]

\* processBatch: the greedy constraint on both budgets
finderGreedyRejects(cfg, items, low, high) ==
    /\ cfg.greedyCap # NoFilter
    /\ \/ RatioAtLeast(greedyRatio(items, low.capacity, low.sol.value), cfg.greedyCap)
       \/ RatioAtLeast(greedyRatio(items, high.capacity, high.sol.value), cfg.greedyCap)

\* processBatch: forgiveness and minimum feasible count on both budgets
finderBundleRejects(cfg, items, low, high) ==
    /\ Len(items) <= 20
    /\ cfg.forgivenessCap # NoFilter \/ cfg.minFeasible # NULL
    /\ LET bsL == countBundleStats(items, low.capacity, low.sol.value, 90)
           bsH == countBundleStats(items, high.capacity, high.sol.value, 90)
       IN  \/ /\ cfg.forgivenessCap # NoFilter
              /\ \/ RatioOver(share(bsL), cfg.forgivenessCap)
                 \/ RatioOver(share(bsH), cfg.forgivenessCap)
           \/ /\ cfg.minFeasible # NULL
              /\ bsL.feasible < cfg.minFeasible \/ bsH.feasible < cfg.minFeasible

\* processBatch: one side of the pair that is pushed
pairSide(items, side) ==
    [capacity |-> side.capacity, sol |-> side.sol,
     sahniK |-> IF side.sahniK # NULL THEN side.sahniK
                ELSE computeSahniK(items, side.capacity, side.sol.value)]

\* processBatch: the body of the loop for idx = i, after the stop test
pairStep(cfg, l, i, acc) ==
    LET p == pairAt(l, i)
    IN  [checked |-> acc.checked + 1,
         foundPairs |->
             IF \/ finderGreedyRejects(cfg, l.items, p.low, p.high)
                \/ finderBundleRejects(cfg, l.items, p.low, p.high)
             THEN acc.foundPairs
             ELSE Append(acc.foundPairs,
                         [low |-> pairSide(l.items, p.low),
                          high |-> pairSide(l.items, p.high)])]

\* a faulty loop: stopRequested is not read
RECURSIVE batchLoopNoStop(_, _, _, _, _, _)
batchLoopNoStop(cfg, l, i, end, stop, acc) ==
    IF i >= end THEN acc
    ELSE batchLoopNoStop(cfg, l, i + 1, end, stop, pairStep(cfg, l, i, acc))

\* processBatch: the loop over idx, which returns when stopRequested is set
RECURSIVE batchLoop(_, _, _, _, _, _)
batchLoop(cfg, l, i, end, stop, acc) ==
    IF i >= end \/ stop THEN acc
    ELSE batchLoop(cfg, l, i + 1, end, stop, pairStep(cfg, l, i, acc))

\* processBatch(startIdx) with stopRequested = stop: checked and foundPairs
\* after it, and whether it has set the timer of the next batch
processBatch(cfg, l, pairs, stop) ==
    LET r == batchLoop(cfg, l, l.startIdx,
                       Min(l.startIdx + BATCH_SIZE, l.totalPairs), stop,
                       [checked |-> l.checked, foundPairs |-> pairs])
    IN  [checked |-> r.checked, foundPairs |-> r.foundPairs,
         scheduled |-> r.checked < l.totalPairs /\ ~stop]

\* showPairDetails: one entry of currentResult
pairEntry(side) ==
    [budget |-> side.capacity, value |-> side.sol.value, weight |-> side.sol.weight,
     count |-> side.sol.count, sahni_k |-> side.sahniK,
     item_ids |-> [j \in 1..Len(side.sol.items) |-> side.sol.items[j].id]]

\* showPairDetails(i) with the inputs as they are now: the new currentResult
\* (the fields the claims read; the greedy ratios are left out)
showPairDetails(inputs, pairs, i, cur) ==
    IF i + 1 > Len(pairs) \/ getItems(inputs) = Nothing THEN cur
    ELSE LET items == getItems(inputs)[1]
             pair  == pairs[i + 1]
         IN  Some([n_items |-> Len(items),
                   budget_low |-> pair.low.capacity,
                   budget_high |-> pair.high.capacity,
                   optimal_low |-> pairEntry(pair.low),
                   optimal_high |-> pairEntry(pair.high),
                   feasible_low |-> countBundleStats(items, pair.low.capacity,
                                       pair.low.sol.value, 90).feasible,
                   feasible_high |-> countBundleStats(items, pair.high.capacity,
                                        pair.high.sol.value, 90).feasible,
                   items |-> items])

\* the buttons and the pairs table: while a search runs
domSearching == [searchBtnDisabled |-> TRUE, stopBtnShown |-> TRUE, pairRows |-> 0]

\* after a search: renderPairsTable draws one row for each found pair
domDone(pairs) ==
    [searchBtnDisabled |-> FALSE, stopBtnShown |-> FALSE, pairRows |-> Len(pairs)]

\* the item inputs used: none filled, one list, and the list after an edit of
\* the first item
BlankInputs == [i \in 1..NUM_ITEMS |-> [weight |-> 0, value |-> 0]]

FinderInputs ==
    {BlankInputs,
     <<[weight |-> 1, value |-> 2], [weight |-> 3, value |-> 5], [weight |-> 3, value |-> 5]>>,
     <<[weight |-> 1, value |-> 6], [weight |-> 3, value |-> 5], [weight |-> 3, value |-> 5]>>}

\* getSearchConfig: two pairs of budget ranges inside the feasible range, one
\* outside it and one with min > max; three sets of targets, with and without
\* a greedy ceiling; one configuration with a forgiveness cap and a minimum
\* feasible count
FinderConfigs ==
    {[budgetLowMin |-> b[1], budgetLowMax |-> b[2],
      budgetHighMin |-> b[3], budgetHighMax |-> b[4],
      optimalSizeLow |-> t[1], sahniKLow |-> t[2],
      optimalSizeHigh |-> t[3], sahniKHigh |-> t[4],
      greedyCap |-> gc, forgivenessCap |-> NoFilter, minFeasible |-> NULL] :
        b \in {<<1, 3, 4, 6>>, <<2, 3, 4, 6>>},
        t \in {<<NoFilter, NoFilter, NoFilter, NoFilter>>,
               <<1, NoFilter, 2, NoFilter>>,
               <<NoFilter, 1, NoFilter, NoFilter>>},
        gc \in {NoFilter, 80}}
    \cup
    {[budgetLowMin |-> b[1], budgetLowMax |-> b[2],
      budgetHighMin |-> b[3], budgetHighMax |-> b[4],
      optimalSizeLow |-> NoFilter, sahniKLow |-> NoFilter,
      optimalSizeHigh |-> NoFilter, sahniKHigh |-> NoFilter,
      greedyCap |-> NoFilter, forgivenessCap |-> 50, minFeasible |-> 3] :
        b \in {<<1, 3, 4, 6>>, <<3, 1, 4, 6>>, <<1, 2, 9, 12>>}}

InitFinder ==
    /\ page = "finder"
    /\ config = Nothing
    /\ pc = "idle"
    /\ attempt = 0
    /\ loc = Nothing
    /\ found = FALSE
    /\ generated = <<>>
    /\ currentInstance = Nothing
    /\ currentResult = Nothing
    /\ allResults = <<>>
    /\ idx = 0
    /\ itemTable = <<>>
    /\ fnIn = Nothing
    /\ fnOut = Nothing
    /\ foundPairs = <<>>
    /\ stopRequested = FALSE
    /\ itemInputs = BlankInputs
    /\ dom = domDone(<<>>)

\* the user changes item inputs (typing, or the paste tab)
FinderEdit ==
    /\ page = "finder"
    /\ \E inputs \in FinderInputs :
          /\ inputs # itemInputs
          /\ itemInputs' = inputs
    /\ UNCHANGED <<page, config, pc, attempt, loc, found, generated, stored,
                   direct, foundPairs, stopRequested, dom>>

\* what a batch leaves: the timer of the next batch, or the code after the
\* await (buttons, pairs table and the first pair shown)
FinderAfterBatch(l, r) ==
    /\ foundPairs' = r.foundPairs
    /\ IF r.scheduled
       THEN /\ pc' = "timer"
            /\ loc' = Some([l EXCEPT !.checked = r.checked,
                                     !.startIdx = l.startIdx + BATCH_SIZE])
            /\ dom' = domSearching
            /\ UNCHANGED currentResult
       ELSE /\ pc' = "idle"
            /\ loc' = Some([l EXCEPT !.checked = r.checked])
            /\ dom' = domDone(r.foundPairs)
            /\ currentResult' = showPairDetails(itemInputs, r.foundPairs, 0,
                                                currentResult)

\* search(): the click on Search, up to the first timer or to the end
FinderSearch ==
    /\ page = "finder"
    /\ ~dom.searchBtnDisabled
    /\ getItems(itemInputs) # Nothing
    /\ \E cfg \in FinderConfigs :
          /\ ~searchRefused(cfg, getItems(itemInputs)[1])
          /\ config' = Some(cfg)
          /\ \E l \in {searchLocals(cfg, getItems(itemInputs)[1])} :
                IF l.totalPairs = 0
                THEN /\ foundPairs' = <<>>
                     /\ pc' = "idle"
                     /\ loc' = Some(l)
                     /\ dom' = domDone(<<>>)
                     /\ UNCHANGED currentResult
                ELSE FinderAfterBatch(l, processBatch(cfg, l, <<>>, FALSE))
    /\ stopRequested' = FALSE
    /\ UNCHANGED <<page, attempt, found, generated, currentInstance, allResults,
                   idx, direct, itemInputs>>

\* the timer callback: processBatch(startIdx + BATCH_SIZE)
FinderBatch ==
    /\ page = "finder"
    /\ pc = "timer"
    /\ FinderAfterBatch(loc[1], processBatch(config[1], loc[1], foundPairs,
                                             stopRequested))
    /\ UNCHANGED <<page, config, attempt, found, generated, currentInstance,
                   allResults, idx, direct, stopRequested, itemInputs>>

\* the click on Stop
FinderStop ==
    /\ page = "finder"
    /\ dom.stopBtnShown
    /\ stopRequested' = TRUE
    /\ UNCHANGED <<page, config, pc, attempt, loc, found, generated, stored,
                   direct, foundPairs, itemInputs, dom>>

\* the click on a row of the pairs table
FinderSelect ==
    /\ page = "finder"
    /\ \E i \in 0..(dom.pairRows - 1) :
          currentResult' = showPairDetails(itemInputs, foundPairs, i, currentResult)
    /\ UNCHANGED <<page, config, pc, attempt, loc, found, generated,
                   currentInstance, allResults, idx, direct, foundPairs,
                   stopRequested, itemInputs, dom>>

NextFinder ==
    \/ FinderEdit
    \/ FinderSearch
    \/ FinderBatch
    \/ FinderStop
    \/ FinderSelect

SpecFinder == InitFinder /\ [][NextFinder]_vars

\* A timer that was set fires: weak fairness of FinderBatch, written out.
\* FinderBatch is enabled exactly when pc = "timer" on this page, and every
\* batch changes pc or the start index of the next batch.
SpecFinderTimers ==
    /\ SpecFinder
    /\ <>[](page = "finder" /\ pc = "timer") => []<><<FinderBatch>>_vars

(***************************************************************************)
(* Properties of the solver.                                               *)
(***************************************************************************)
\* sums over the positions S of an item list
RECURSIVE WeightOver(_, _)
WeightOver(items, S) ==
    IF S = {} THEN 0
    ELSE LET j == CHOOSE x \in S : TRUE
         IN  items[j].weight + WeightOver(items, S \ {j})

RECURSIVE ValueOver(_, _)
ValueOver(items, S) ==
    IF S = {} THEN 0
    ELSE LET j == CHOOSE x \in S : TRUE
         IN  items[j].value + ValueOver(items, S \ {j})

\* the subsets of the items that fit the capacity
Fitting(items, capacity) ==
    {S \in SUBSET (1..Len(items)) : WeightOver(items, S) <= capacity}

\* C1: the value solveKnapsack returns is the largest total value of any
\* subset of the items whose total weight is at most the capacity
C1_SolverOptimal ==
    fnOut # Nothing =>
        LET items == fnIn[1].items
            capacity == fnIn[1].capacity
            best == CHOOSE S \in Fitting(items, capacity) :
                        \A T \in Fitting(items, capacity) :
                            ValueOver(items, T) <= ValueOver(items, S)
        IN  fnOut[1].value = ValueOver(items, best)

\* a call where the ratio-greedy fill is worse than the returned optimum
C1_Witness ==
    /\ fnOut # Nothing
    /\ Len(fnIn[1].items) = MaxItems
    /\ fnOut[1].count = 2
    /\ greedyValue(fnIn[1].items, fnIn[1].capacity) < fnOut[1].value

\* C2: the items solveKnapsack returns weigh at most the capacity, and the
\* returned weight is their total weight
C2_SolutionFits ==
    fnOut # Nothing =>
        LET sel == fnOut[1].items
        IN  /\ WeightOver(sel, 1..Len(sel)) <= fnIn[1].capacity
            /\ fnOut[1].weight = WeightOver(sel, 1..Len(sel))

\* a call where not everything fits and the selection leaves capacity unused
C2_Witness ==
    /\ fnOut # Nothing
    /\ SumWeight(fnIn[1].items) > fnIn[1].capacity
    /\ fnOut[1].count >= 1
    /\ fnOut[1].weight < fnIn[1].capacity

(***************************************************************************)
(* Properties of the seed search.                                          *)
(***************************************************************************)
\* the elements of a sequence
Range(s) == {s[j] : j \in 1..Len(s)}

\* the total weight of an item list
TotalWeight(items) == WeightOver(items, 1..Len(items))

\* C3: every result of the single-budget search, found or fallback, has a
\* budget of at least 1 that is strictly below the total weight of its items
C3_BudgetBelowTotalWeight ==
    (page = "single" /\ currentInstance # Nothing) =>
        /\ currentInstance[1].budget >= 1
        /\ currentInstance[1].budget < TotalWeight(currentInstance[1].items)

\* the attempt indices of one search
Attempts == 0..(MAX_ATTEMPTS - 1)

\* the number of subsets of items[i..] (the empty one included) that weigh at
\* most cap and whose values, times 100, add up to at least need
RECURSIVE CountFitting(_, _, _, _)
CountFitting(items, i, cap, need) ==
    IF i > Len(items) THEN (IF need <= 0 THEN 1 ELSE 0)
    ELSE CountFitting(items, i + 1, cap, need)
         + (IF items[i].weight <= cap
            THEN CountFitting(items, i + 1, cap - items[i].weight,
                              need - (100 * items[i].value))
            ELSE 0)

\* the optimal value, the number of non-empty bundles within the budget, and
\* the number of those worth at least 90% of the optimum
OptValue(items, c) == solveKnapsack(items, c).value
FeasibleCount(items, c) == CountFitting(items, 1, c, 0) - 1
N90Count(items, c) ==
    CountFitting(items, 1, c, 90 * OptValue(items, c))
    - (IF OptValue(items, c) = 0 THEN 1 ELSE 0)

\* the constraints at one budget; cap and floor are absent when NoFilter / NULL
GreedyBelow(cap, items, c) ==
    cap # NoFilter =>
        IF OptValue(items, c) > 0
        THEN greedyValue(items, c) * 100 < cap * OptValue(items, c)
        ELSE 0 < cap
ShareWithin(cap, items, c) ==
    cap # NoFilter => N90Count(items, c) * 100 <= cap * FeasibleCount(items, c)
FloorMet(floor, items, c) ==
    floor # NULL => FeasibleCount(items, c) >= floor

\* the capacities the search settles on for the items of one seed
SingleChoice(cfg, seedStr) ==
    findCapacityInRange(itemsFor(cfg, seedStr), cfg.budgetMin, cfg.budgetMax,
                        cfg.optimalSize, cfg.targetSahniK)
DualChoiceLow(cfg, seedStr) ==
    findCapacityInRangeDual(itemsFor(cfg, seedStr), cfg.budgetLowMin, cfg.budgetLowMax,
                            cfg.optimalSizeLow, cfg.sahniKLow)
DualChoiceHigh(cfg, seedStr) ==
    findCapacityInRangeDual(itemsFor(cfg, seedStr), cfg.budgetHighMin, cfg.budgetHighMax,
                            cfg.optimalSizeHigh, cfg.sahniKHigh)
BatchChoiceLow(cfg, seedStr) ==
    findCapacityInRangeBatch(itemsFor(cfg, seedStr), cfg.budgetLowMin, cfg.budgetLowMax,
                             cfg.optLowMin, cfg.optLowMax, cfg.sahniKLow,
                             cfg.minOptValLow, cfg.maxOptValLow)
BatchChoiceHigh(cfg, seedStr) ==
    findCapacityInRangeBatch(itemsFor(cfg, seedStr), cfg.budgetHighMin, cfg.budgetHighMax,
                             cfg.optHighMin, cfg.optHighMax, cfg.sahniKHigh,
                             cfg.minOptValHigh, cfg.maxOptValHigh)

\* the items of seed seedStr pass every check the search makes: a capacity is
\* chosen for each budget and the greedy and bundle constraints hold there
\* (the bundle constraints are looked at only for at most 20 items)
SingleAccepts(cfg, seedStr) ==
    /\ SingleChoice(cfg, seedStr) # Nothing
    /\ LET items == itemsFor(cfg, seedStr)
           c == SingleChoice(cfg, seedStr)[1].capacity
       IN  /\ GreedyBelow(cfg.greedyCap, items, c)
           /\ cfg.nItems <= 20 =>
                 /\ ShareWithin(cfg.forgivenessCap, items, c)
                 /\ FloorMet(cfg.minFeasible, items, c)

DualAccepts(cfg, seedStr) ==
    /\ DualChoiceLow(cfg, seedStr) # Nothing
    /\ DualChoiceHigh(cfg, seedStr) # Nothing
    /\ LET items == itemsFor(cfg, seedStr)
       IN  \A c \in {DualChoiceLow(cfg, seedStr)[1].capacity,
                     DualChoiceHigh(cfg, seedStr)[1].capacity} :
               /\ GreedyBelow(cfg.greedyCap, items, c)
               /\ cfg.nItems <= 20 => ShareWithin(cfg.forgivenessCap, items, c)

BatchStructural(cfg, seedStr) ==
    /\ BatchChoiceLow(cfg, seedStr) # Nothing
    /\ BatchChoiceHigh(cfg, seedStr) # Nothing

BatchAccepts(cfg, seedStr) ==
    /\ BatchStructural(cfg, seedStr)
    /\ LET items == itemsFor(cfg, seedStr)
       IN  \A c \in {BatchChoiceLow(cfg, seedStr)[1].capacity,
                     BatchChoiceHigh(cfg, seedStr)[1].capacity} :
               /\ GreedyBelow(cfg.greedyCap, items, c)
               /\ cfg.nItems <= 20 =>
                     /\ ShareWithin(cfg.forgivenessCap, items, c)
                     /\ FloorMet(cfg.minFeasible, items, c)

\* C4: a result carries a warning exactly when no attempt passed every check
\* of the search, that is, when the fallback was taken
C4_WarningIffFallback ==
    /\ (page = "single" /\ currentInstance # Nothing) =>
          (currentInstance[1].warning # Nothing
             <=> \A k \in Attempts :
                    ~SingleAccepts(config[1], attemptSeed(config[1].seed, k)))
    /\ (page = "dual" /\ currentResult # Nothing) =>
          (currentResult[1].warning # Nothing
             <=> \A k \in Attempts :
                    ~DualAccepts(config[1], attemptSeed(config[1].seed, k)))
    /\ page = "batch" =>
          \A i \in 1..Len(allResults) :
              allResults[i].warning # Nothing
                 <=> \A k \in Attempts :
                        ~BatchAccepts(config[1],
                            attemptSeed(instanceSeedOf(config[1].seed, i - 1), k))

\* a batch whose first instance was found and whose second fell back
C4_Witness ==
    /\ page = "batch"
    /\ Len(allResults) = 2
    /\ allResults[1].warning = Nothing
    /\ allResults[2].warning # Nothing

\* the seeds of attempts 0..k of a search that starts from seed base
SeedsUpTo(base, k) == [j \in 1..(k + 1) |-> attemptSeed(base, j - 1)]

\* the attempt indices whose seeds pass every check of the search
SingleAccepted(cfg) ==
    {k \in Attempts : SingleAccepts(cfg, attemptSeed(cfg.seed, k))}
DualAccepted(cfg) ==
    {k \in Attempts : DualAccepts(cfg, attemptSeed(cfg.seed, k))}
BatchAccepted(cfg, base) ==
    {k \in Attempts : BatchAccepts(cfg, attemptSeed(base, k))}

\* the least element of a non-empty set of attempt indices
Least(S) == CHOOSE k \in S : \A j \in S : k <= j

\* the calls of generateItems one first-fit search makes, in order: attempts
\* 0..k when k is the least accepted index; otherwise every attempt and, when
\* regenerates, the base seed once more for the fallback
SearchLog(base, accepted, regenerates) ==
    IF accepted # {}
    THEN SeedsUpTo(base, Least(accepted))
    ELSE SeedsUpTo(base, MAX_ATTEMPTS - 1) \o (IF regenerates THEN <<base>> ELSE <<>>)

\* the calls of generateItems for the first n instances of a batch
RECURSIVE BatchLog(_, _)
BatchLog(cfg, n) ==
    IF n = 0 THEN <<>>
    ELSE LET base == instanceSeedOf(cfg.seed, n - 1)
             regenerates == \A k \in Attempts : ~BatchStructural(cfg, attemptSeed(base, k))
         IN  BatchLog(cfg, n - 1) \o SearchLog(base, BatchAccepted(cfg, base), regenerates)

\* C5: the search is first-fit.  A result without warning has the seed of the
\* least attempt index that passes every check (the base seed for index 0,
\* base_k for index k), and generateItems was called for the attempts up to
\* that index and for none after it
C5_FirstFit ==
    /\ (page = "single" /\ currentInstance # Nothing) =>
          /\ generated = SearchLog(config[1].seed, SingleAccepted(config[1]), TRUE)
          /\ currentInstance[1].warning = Nothing =>
                currentInstance[1].seed =
                    attemptSeed(config[1].seed, Least(SingleAccepted(config[1])))
    /\ (page = "dual" /\ currentResult # Nothing) =>
          /\ generated = SearchLog(config[1].seed, DualAccepted(config[1]), TRUE)
          /\ currentResult[1].warning = Nothing =>
                currentResult[1].seed =
                    attemptSeed(config[1].seed, Least(DualAccepted(config[1])))
    /\ (page = "batch" /\ pc \in {"next", "done"}) =>
          /\ generated = BatchLog(config[1], Len(allResults))
          /\ \A i \in 1..Len(allResults) :
                allResults[i].warning = Nothing =>
                    LET base == instanceSeedOf(config[1].seed, i - 1)
                    IN  allResults[i].seed =
                            attemptSeed(base, Least(BatchAccepted(config[1], base)))

\* a single-budget search that rejected attempts 0 and 1 and returned base_2
C5_Witness ==
    /\ page = "single"
    /\ currentInstance # Nothing
    /\ currentInstance[1].warning = Nothing
    /\ currentInstance[1].seed = config[1].seed \o Underscore \o Digits(2)
    /\ Len(generated) = 3

\* C6: with a greedy ceiling configured, a result without warning has a greedy
\* ratio strictly below the ceiling at its budget (single) or at both of its
\* budgets (dual, batch); an attempt is only ever accepted with the ratio below
\* the ceiling at every budget
C6_GreedyBelowCeiling ==
    /\ (page = "single" /\ currentInstance # Nothing
                        /\ currentInstance[1].warning = Nothing) =>
          GreedyBelow(config[1].greedyCap, currentInstance[1].items,
                      currentInstance[1].budget)
    /\ (page = "single" /\ found) =>
          GreedyBelow(config[1].greedyCap, loc[1].items, loc[1].capacity)
    /\ (page = "dual" /\ currentResult # Nothing
                      /\ currentResult[1].warning = Nothing) =>
          /\ GreedyBelow(config[1].greedyCap, currentResult[1].items,
                         currentResult[1].budget_low)
          /\ GreedyBelow(config[1].greedyCap, currentResult[1].items,
                         currentResult[1].budget_high)
    /\ (page = "dual" /\ found) =>
          /\ GreedyBelow(config[1].greedyCap, loc[1].items, loc[1].bLow)
          /\ GreedyBelow(config[1].greedyCap, loc[1].items, loc[1].bHigh)
    /\ page = "batch" =>
          \A i \in 1..Len(allResults) :
              allResults[i].warning = Nothing =>
                  /\ GreedyBelow(config[1].greedyCap, allResults[i].items,
                                 allResults[i].budgetLow)
                  /\ GreedyBelow(config[1].greedyCap, allResults[i].items,
                                 allResults[i].budgetHigh)

\* a dual-budget result found under a greedy ceiling after two rejected attempts
C6_Witness ==
    /\ page = "dual"
    /\ currentResult # Nothing
    /\ config[1].greedyCap # NoFilter
    /\ currentResult[1].warning = Nothing
    /\ Len(generated) = 3
    /\ currentResult[1].budget_low < currentResult[1].budget_high

\* a single-budget configuration whose only constraint is a greedy ceiling of 80%
OnlyGreedyCeiling(cfg) ==
    /\ cfg.greedyCap = 80
    /\ cfg.optimalSize = NoFilter
    /\ cfg.targetSahniK = NoFilter
    /\ cfg.forgivenessCap = NoFilter
    /\ cfg.minFeasible = NULL

\* the result is a found one with greedy ratio below 80%
FoundBelowCeiling(r) ==
    /\ r.warning = Nothing
    /\ r.greedy_ratio[1] * 100 < 80 * r.greedy_ratio[2]
    /\ GreedyBelow(80, r.items, r.budget)

\* the capacities inside the budget range that are valid for the items
CapacitiesInRange(cfg, items) ==
    {c \in cfg.budgetMin..cfg.budgetMax : 1 <= c /\ c < TotalWeight(items)}

\* the one capacity the search tries when no target is set: the rounded
\* midpoint of the range clamped to [1, total weight - 1], if that is not empty
MidCapacity(cfg, items) ==
    LET lo == IF cfg.budgetMin < 1 THEN 1 ELSE cfg.budgetMin
        hi == IF cfg.budgetMax > TotalWeight(items) - 1 THEN TotalWeight(items) - 1
              ELSE cfg.budgetMax
    IN  IF lo > hi THEN {} ELSE {(lo + hi + 1) \div 2}

\* C7 as stated: with a greedy ceiling of 0.8 and a budget range in which some
\* attempt seed and some capacity give a greedy ratio below 0.8, the search
\* returns a found result with greedy ratio below 0.8
C7_FoundWhenSomeCapacityBelow ==
    (page = "single" /\ currentInstance # Nothing /\ OnlyGreedyCeiling(config[1])) =>
        ((\E k \in Attempts :
             LET items == itemsFor(config[1], attemptSeed(config[1].seed, k))
             IN  \E c \in CapacitiesInRange(config[1], items) : GreedyBelow(80, items, c))
         => FoundBelowCeiling(currentInstance[1]))

\* C7, amended: with a greedy ceiling of 0.8 as the only constraint, the search
\* returns a found result with greedy ratio below 0.8 exactly when, for some
\* attempt seed, the midpoint capacity of the clamped range gives a greedy
\* ratio below 0.8; no other capacity of the range is tried, and otherwise the
\* result is the fallback with a warning
C7_FoundIffMidpointBelow ==
    (page = "single" /\ currentInstance # Nothing /\ OnlyGreedyCeiling(config[1])) =>
        /\ FoundBelowCeiling(currentInstance[1])
              <=> \E k \in Attempts :
                     LET items == itemsFor(config[1], attemptSeed(config[1].seed, k))
                     IN  \E c \in MidCapacity(config[1], items) :
                             GreedyBelow(80, items, c)
        /\ FoundBelowCeiling(currentInstance[1]) \/ currentInstance[1].warning # Nothing

\* a found result under the 80% ceiling, from a later attempt than the first
C7_Witness ==
    /\ page = "single"
    /\ currentInstance # Nothing
    /\ OnlyGreedyCeiling(config[1])
    /\ FoundBelowCeiling(currentInstance[1])
    /\ currentInstance[1].seed # config[1].seed

\* the N90-share ceiling and the feasible-count floor hold at budget c
BundlesWithin(cfg, items, c) ==
    /\ ShareWithin(cfg.forgivenessCap, items, c)
    /\ "minFeasible" \in DOMAIN cfg => FloorMet(cfg.minFeasible, items, c)

\* the results without warning, as <<items, budgets>>
FoundResults ==
    IF page = "single"
    THEN {<<r.items, {r.budget}>> : r \in {x \in Range(currentInstance) : x.warning = Nothing}}
    ELSE IF page = "dual"
    THEN {<<r.items, {r.budget_low, r.budget_high}>> :
             r \in {x \in Range(currentResult) : x.warning = Nothing}}
    ELSE {<<r.items, {r.budgetLow, r.budgetHigh}>> :
             r \in {x \in Range(allResults) : x.warning = Nothing}}

\* C8 as stated: every result without warning has its N90 share at or below the
\* configured ceiling and its feasible count at or above the configured floor,
\* at every returned budget
C8_BundlesWithinLimits ==
    \A fr \in FoundResults : \A c \in fr[2] : BundlesWithin(config[1], fr[1], c)

\* C8, amended: that holds when the configuration has at most 20 items; with
\* more items the bundle statistics are not computed, the ceiling and the floor
\* are not checked, and the single-budget result reports n90 and feasible_count
\* as null
C8_BundlesWithinLimitsSmall ==
    /\ config # Nothing /\ config[1].nItems <= 20 =>
          \A fr \in FoundResults : \A c \in fr[2] : BundlesWithin(config[1], fr[1], c)
    /\ (page = "single" /\ currentInstance # Nothing) =>
          IF config[1].nItems <= 20
          THEN /\ currentInstance[1].n90 =
                      N90Count(currentInstance[1].items, currentInstance[1].budget)
               /\ currentInstance[1].feasible_count =
                      FeasibleCount(currentInstance[1].items, currentInstance[1].budget)
          ELSE /\ currentInstance[1].n90 = NULL
               /\ currentInstance[1].feasible_count = NULL

\* a single-budget result found under a ceiling and a floor after an attempt
\* that the bundle constraints rejected
C8_Witness ==
    /\ page = "single"
    /\ currentInstance # Nothing
    /\ currentInstance[1].warning = Nothing
    /\ config[1].nItems <= 20
    /\ config[1].forgivenessCap # NoFilter
    /\ config[1].minFeasible # NULL
    /\ config[1].greedyCap = NoFilter
    /\ currentInstance[1].seed # config[1].seed
    /\ SingleChoice(config[1], config[1].seed) # Nothing

\* the Sahni-k of the items at budget c, from the solver's optimal value
SahniAt(items, c) == computeSahniK(items, c, solveKnapsack(items, c).value)

\* C9: with a Sahni-k target t configured, the search returns either a result
\* without warning whose items have Sahni-k exactly t at the returned budget
\* (at the low and the high budget for their targets), or a result with a
\* warning
C9_SahniTargetMet ==
    /\ (page = "single" /\ currentInstance # Nothing
                        /\ config[1].targetSahniK # NoFilter) =>
          \/ currentInstance[1].warning # Nothing
          \/ SahniAt(currentInstance[1].items, currentInstance[1].budget)
                = config[1].targetSahniK
    /\ (page = "dual" /\ currentResult # Nothing /\ currentResult[1].warning = Nothing) =>
          /\ config[1].sahniKLow # NoFilter =>
                /\ SahniAt(currentResult[1].items, currentResult[1].budget_low)
                      = config[1].sahniKLow
                /\ currentResult[1].optimal_low.sahni_k = config[1].sahniKLow
          /\ config[1].sahniKHigh # NoFilter =>
                /\ SahniAt(currentResult[1].items, currentResult[1].budget_high)
                      = config[1].sahniKHigh
                /\ currentResult[1].optimal_high.sahni_k = config[1].sahniKHigh
    /\ page = "batch" =>
          \A i \in 1..Len(allResults) :
              allResults[i].warning = Nothing =>
                  /\ config[1].sahniKLow # NoFilter =>
                        /\ SahniAt(allResults[i].items, allResults[i].budgetLow)
                              = config[1].sahniKLow
                        /\ allResults[i].sahniLow = config[1].sahniKLow
                  /\ config[1].sahniKHigh # NoFilter =>
                        /\ SahniAt(allResults[i].items, allResults[i].budgetHigh)
                              = config[1].sahniKHigh
                        /\ allResults[i].sahniHigh = config[1].sahniKHigh

\* a dual-budget result that meets a Sahni-k target of 1 at the low budget and
\* of 2 at the high budget
C9_Witness ==
    /\ page = "dual"
    /\ currentResult # Nothing
    /\ currentResult[1].warning = Nothing
    /\ config[1].sahniKLow = 1
    /\ config[1].sahniKHigh = 2
    /\ currentResult[1].optimal_low.sahni_k = 1
    /\ currentResult[1].optimal_high.sahni_k = 2

\* v is within [lo, hi], where an end that is NULL is open
WithinOpen(v, lo, hi) == (lo = NULL \/ v >= lo) /\ (hi = NULL \/ v <= hi)

\* C10: in a result without warning the optimal solution at each returned
\* budget meets the configured structural targets: the exact item count
\* (single, dual), or the item-count range together with the optimal-value
\* range (batch)
C10_StructuralTargetsMet ==
    /\ (page = "single" /\ currentInstance # Nothing
                        /\ currentInstance[1].warning = Nothing
                        /\ config[1].optimalSize # NoFilter) =>
          solveKnapsack(currentInstance[1].items, currentInstance[1].budget).count
             = config[1].optimalSize
    /\ (page = "dual" /\ currentResult # Nothing /\ currentResult[1].warning = Nothing) =>
          /\ config[1].optimalSizeLow # NoFilter =>
                /\ solveKnapsack(currentResult[1].items,
                                 currentResult[1].budget_low).count
                      = config[1].optimalSizeLow
                /\ currentResult[1].optimal_low.count = config[1].optimalSizeLow
          /\ config[1].optimalSizeHigh # NoFilter =>
                /\ solveKnapsack(currentResult[1].items,
                                 currentResult[1].budget_high).count
                      = config[1].optimalSizeHigh
                /\ currentResult[1].optimal_high.count = config[1].optimalSizeHigh
    /\ page = "batch" =>
          \A i \in 1..Len(allResults) :
              allResults[i].warning = Nothing =>
                  LET r == allResults[i]
                      low == solveKnapsack(r.items, r.budgetLow)
                      high == solveKnapsack(r.items, r.budgetHigh)
                  IN  /\ r.optLow = low
                      /\ r.optHigh = high
                      /\ WithinOpen(low.count, config[1].optLowMin, config[1].optLowMax)
                      /\ WithinOpen(low.value, config[1].minOptValLow,
                                    config[1].maxOptValLow)
                      /\ WithinOpen(high.count, config[1].optHighMin,
                                    config[1].optHighMax)
                      /\ WithinOpen(high.value, config[1].minOptValHigh,
                                    config[1].maxOptValHigh)

\* a batch result found under a count range and a value range at both budgets,
\* where a capacity of the low range passes the count filter but not the value
\* filter
C10_Witness ==
    /\ page = "batch"
    /\ Len(allResults) >= 1
    /\ allResults[1].warning = Nothing
    /\ config[1].optLowMin = 1 /\ config[1].optLowMax = 2
    /\ config[1].maxOptValLow = 8 /\ config[1].minOptValHigh = 10
    /\ \E c \in config[1].budgetLowMin..config[1].budgetLowMax :
          /\ c < TotalWeight(allResults[1].items)
          /\ solveKnapsack(allResults[1].items, c).count \in 1..2
          /\ solveKnapsack(allResults[1].items, c).value > 8

(***************************************************************************)
(* Properties of the fallbacks.                                            *)
(***************************************************************************)
\* the attempt indices of instance base whose items pass the structural
\* constraints (a capacity is chosen at both budgets)
StructuralPasses(cfg, base) ==
    {k \in Attempts : BatchStructural(cfg, attemptSeed(base, k))}

\* the greatest element of a non-empty set of attempt indices
Greatest(S) == CHOOSE k \in S : \A j \in S : j <= k

\* result r reuses attempt k of instance base: its seed, its items, the
\* capacities chosen there and their solutions
BuiltFromAttempt(cfg, r, base, k) ==
    LET usedSeed == attemptSeed(base, k)
    IN  /\ r.seed = usedSeed
        /\ r.items = itemsFor(cfg, usedSeed)
        /\ r.budgetLow = BatchChoiceLow(cfg, usedSeed)[1].capacity
        /\ r.budgetHigh = BatchChoiceHigh(cfg, usedSeed)[1].capacity
        /\ r.optLow = BatchChoiceLow(cfg, usedSeed)[1].sol
        /\ r.optHigh = BatchChoiceHigh(cfg, usedSeed)[1].sol

\* the batch results with a warning for which some attempt passed the
\* structural constraints, as <<result, instance seed>>
NearMissFallbacks ==
    IF page = "batch" /\ config # Nothing
    THEN {<<allResults[i], instanceSeedOf(config[1].seed, i - 1)>> :
             i \in {j \in 1..Len(allResults) :
                       /\ allResults[j].warning # Nothing
                       /\ StructuralPasses(config[1],
                              instanceSeedOf(config[1].seed, j - 1)) # {}}}
    ELSE {}

\* C11 as stated: a batch fallback for which some attempt passed the
\* structural constraints is built from the most recent such attempt, the one
\* with the largest attempt index
C11_FallbackFromLatestNearMiss ==
    \A f \in NearMissFallbacks :
        BuiltFromAttempt(config[1], f[1], f[2],
                         Greatest(StructuralPasses(config[1], f[2])))

\* C11, amended: such a fallback is built from the first such attempt, the
\* one with the smallest attempt index, and its warning says that the value
\* cap is respected
C11_FallbackFromFirstNearMiss ==
    \A f \in NearMissFallbacks :
        /\ BuiltFromAttempt(config[1], f[1], f[2],
                            Least(StructuralPasses(config[1], f[2])))
        /\ f[1].warning = Some("relaxed")

\* a batch fallback where two attempts with different items passed the
\* structural constraints
C11_Witness ==
    \E f \in NearMissFallbacks :
        /\ Cardinality(StructuralPasses(config[1], f[2])) >= 2
        /\ itemsFor(config[1], attemptSeed(f[2], Least(StructuralPasses(config[1], f[2]))))
             # itemsFor(config[1], attemptSeed(f[2], Greatest(StructuralPasses(config[1], f[2]))))
        /\ f[1].warning = Some("relaxed")

\* v lies in the closed range [lo, hi]
InRange(v, lo, hi) == lo <= v /\ v <= hi

\* no attempt seed of a single / dual search is given a capacity by
\* findCapacityInRange (at both budgets, for the dual page)
SingleNonePasses(cfg) ==
    \A k \in Attempts : SingleChoice(cfg, attemptSeed(cfg.seed, k)) = Nothing
DualNonePasses(cfg) ==
    \A k \in Attempts :
        \/ DualChoiceLow(cfg, attemptSeed(cfg.seed, k)) = Nothing
        \/ DualChoiceHigh(cfg, attemptSeed(cfg.seed, k)) = Nothing

\* the batch results for which no attempt passed the structural constraints,
\* as <<result, instance seed>>
PlainFallbacks ==
    IF page = "batch" /\ config # Nothing
    THEN {<<allResults[i], instanceSeedOf(config[1].seed, i - 1)>> :
             i \in {j \in 1..Len(allResults) :
                       StructuralPasses(config[1],
                           instanceSeedOf(config[1].seed, j - 1)) = {}}}
    ELSE {}

\* C12: when no attempt passed the structural constraints, the result has the
\* base seed and the items generated from it, and every returned capacity
\* lies inside its configured budget range
C12_FallbackInsideRange ==
    /\ (page = "single" /\ currentInstance # Nothing /\ SingleNonePasses(config[1])) =>
          /\ currentInstance[1].seed = config[1].seed
          /\ currentInstance[1].items = itemsFor(config[1], config[1].seed)
          /\ InRange(currentInstance[1].budget, config[1].budgetMin, config[1].budgetMax)
    /\ (page = "dual" /\ currentResult # Nothing /\ DualNonePasses(config[1])) =>
          /\ currentResult[1].seed = config[1].seed
          /\ currentResult[1].items = itemsFor(config[1], config[1].seed)
          /\ InRange(currentResult[1].budget_low,
                     config[1].budgetLowMin, config[1].budgetLowMax)
          /\ InRange(currentResult[1].budget_high,
                     config[1].budgetHighMin, config[1].budgetHighMax)
    /\ \A f \in PlainFallbacks :
          /\ f[1].seed = f[2]
          /\ f[1].items = itemsFor(config[1], f[2])
          /\ InRange(f[1].budgetLow, config[1].budgetLowMin, config[1].budgetLowMax)
          /\ InRange(f[1].budgetHigh, config[1].budgetHighMin, config[1].budgetHighMax)

(***************************************************************************)
(* Properties of the entry points.                                         *)
(***************************************************************************)
\* min > max, for a range whose ends are both set
Inverted(lo, hi) == lo # NULL /\ hi # NULL /\ lo > hi

\* some paired range of the configuration has min > max: a budget range, an
\* optimal-count range or an optimal-value range
InvertedRange(cfg) ==
    IF page = "single" THEN Inverted(cfg.budgetMin, cfg.budgetMax)
    ELSE IF page = "dual"
    THEN \/ Inverted(cfg.budgetLowMin, cfg.budgetLowMax)
         \/ Inverted(cfg.budgetHighMin, cfg.budgetHighMax)
    ELSE \/ Inverted(cfg.budgetLowMin, cfg.budgetLowMax)
         \/ Inverted(cfg.budgetHighMin, cfg.budgetHighMax)
         \/ Inverted(cfg.optLowMin, cfg.optLowMax)
         \/ Inverted(cfg.optHighMin, cfg.optHighMax)
         \/ Inverted(cfg.minOptValLow, cfg.maxOptValLow)
         \/ Inverted(cfg.minOptValHigh, cfg.maxOptValHigh)

\* C13: a configuration with min > max on a paired range is rejected by the
\* entry point: the search is never entered, generateItems is never called and
\* the stored results stay what they were (empty, as a behaviour holds one
\* call of the entry point)
C13_InvertedRangeRejected ==
    (config # Nothing /\ InvertedRange(config[1])) =>
        /\ pc = "rejected"
        /\ generated = <<>>
        /\ loc = Nothing
        /\ currentInstance = Nothing
        /\ currentResult = Nothing
        /\ allResults = <<>>


(***************************************************************************)
(* Properties of the generator.                                            *)
(***************************************************************************)
\* the item lists returned so far
Returned == {fnOut[i] : i \in 1..Len(fnOut)}

\* x > 0; a double of the model is positive by its form
Positive(cfg, x) == IF integerMode(cfg) THEN x > 0 ELSE x.m # Big(0)

\* x >= 1
AtLeastOne(cfg, x) == IF integerMode(cfg) THEN x >= 1 ELSE DblGeq(x, toDbl(1))

\* C14: every item generateItems returns has weight > 0 and value > 0, and
\* value >= 1 when the value-integer flag is set, for every combination of
\* the integer flags and of the integer-ratio flag (stated as the claim has
\* it; it is violated: with continuous weights the integer-ratio pass
\* replaces an integer value by ratio * weight, which can be below 1)
C14_ItemsPositive ==
    \A its \in Returned : \A i \in DOMAIN its :
        /\ Positive(fnIn[1], its[i].weight)
        /\ Positive(fnIn[1], its[i].value)
        /\ fnIn[1].valueInt => AtLeastOne(fnIn[1], its[i].value)


\* v is j * w for an integer j >= 1, exactly
Multiple(cfg, v, w) ==
    IF integerMode(cfg) THEN v % w = 0 /\ v \div w >= 1 ELSE DblMultiple(v, w)

\* C15: with the integer-ratio snap enabled, every item generateItems returns
\* has a value that is an exact integer multiple of its weight, with a
\* multiplier of 1 or more (stated as the claim has it; it is violated: with
\* continuous weights ratio * weight is rounded to a double that is not a
\* multiple of the weight)
C15_SnapGivesMultiple ==
    fnIn[1].integerRatios =>
        \A its \in Returned : \A i \in DOMAIN its :
            Multiple(fnIn[1], its[i].value, its[i].weight)


\* C16: the runs of generateItems with one seed and one configuration return
\* the same item sequence (ids 1..n in order, the same weights and values),
\* whatever state the closure of the run before was left in
C16_SameSeedSameItems ==
    \A k \in 1..Len(fnOut) :
        /\ fnOut[k] = fnOut[1]
        /\ \A i \in DOMAIN fnOut[k] : fnOut[k][i].id = i

\* a second run has returned, and the first had left its closure in a state
\* other than the one a run starts from
C16_Witness ==
    /\ Len(fnOut) >= 2
    /\ pc = "idle"
    /\ loc[1].rng # hashSeed(fnIn[1].seed)
    /\ Len(fnOut[2]) = fnIn[1].nItems

(***************************************************************************)
(* Properties of the metrics.                                              *)
(***************************************************************************)
\* the sets of exactly k items that fit in the capacity
FittingSets(items, capacity, k) ==
    {S \in SUBSET (1..Len(items)) :
        Cardinality(S) = k /\ SetWeight(items, S) <= capacity}

\* the depths 0 .. min(n, 6) at which some fitting set, forced in and completed
\* by the greedy fill, reaches the value opt
ReachingDepths(items, capacity, opt) ==
    {k \in 0..Min(Len(items), 6) :
        \E S \in FittingSets(items, capacity, k) :
            totalVal(items, capacity, S) >= opt}

\* C17: computeSahniK returns the least depth k in 0..min(n,6) at which some
\* set of exactly k items that fits, forced in and completed by the greedy
\* fill, reaches the optimal value; it returns 0 exactly when pure greedy
\* reaches it, the sentinel when no depth does, and nothing else
C17_SahniKIsLeastDepth ==
    Len(fnOut) >= 4 =>
        LET items  == fnIn[1].items
            c      == fnIn[1].capacity
            opt    == fnOut[1].value
            k      == fnOut[4]
            depths == ReachingDepths(items, c, opt)
        IN  /\ k \in (0..6) \cup {MoreThanSix}
            /\ depths # {} => (k \in depths /\ \A j \in depths : k <= j)
            /\ depths = {} => k = MoreThanSix
            /\ (k = 0) <=> (greedyValue(items, c) >= opt)

\* Sahni-k was computed for a list whose optimum no depth up to 6 reaches
C17_Witness ==
    /\ Len(fnOut) = 4
    /\ fnOut[4] = MoreThanSix
    /\ fnOut[1].count = 7
    /\ ReachingDepths(fnIn[1].items, fnIn[1].capacity, fnOut[1].value) = {}

\* the totals that the depth-k enumeration sees: one for each fitting set
TotalsAt(items, capacity, k) ==
    {totalVal(items, capacity, S) : S \in FittingSets(items, capacity, k)}

\* the achievable value at depth k, for a depth that has a fitting set
Achievable(items, capacity, k) ==
    CHOOSE v \in TotalsAt(items, capacity, k) :
        \A u \in TotalsAt(items, capacity, k) : u <= v

\* the greedy fill adds an item to the forced set S: some other item fits in
\* the capacity that S leaves
FillAdds(items, capacity, S) ==
    \E i \in (1..Len(items)) \ S :
        items[i].weight <= capacity - SetWeight(items, S)

\* C18, as stated: the achievable value never decreases from depth k to depth
\* k + 1, for 0 <= k < min(n,6) (read for the depths that have a fitting set
\* of k + 1 items, where the maximum is defined)
C18_AchievableNeverDecreases ==
    Len(fnOut) >= 4 =>
        LET items == fnIn[1].items
            c     == fnIn[1].capacity
        IN  \A k \in 0..(Min(Len(items), 6) - 1) :
                FittingSets(items, c, k + 1) # {} =>
                    Achievable(items, c, k + 1) >= Achievable(items, c, k)

\* C18, amended: the achievable value at depth k + 1 is at least the total of
\* every depth-k completion in which the greedy fill adds an item (forcing
\* the first item the fill adds gives a fitting set of k + 1 items with the
\* same total); it falls only when the best depth-k sets are completed by
\* nothing
C18_AchievableKeptWhenFillAdds ==
    Len(fnOut) >= 4 =>
        LET items == fnIn[1].items
            c     == fnIn[1].capacity
        IN  \A k \in 0..(Min(Len(items), 6) - 1) :
                \A S \in FittingSets(items, c, k) :
                    FillAdds(items, c, S) =>
                        /\ FittingSets(items, c, k + 1) # {}
                        /\ Achievable(items, c, k + 1) >= totalVal(items, c, S)

\* Sahni-k was computed for a list where depth 2 has a fitting set and
\* achieves less than depth 1, and where a depth-1 fill adds an item
C18_Witness ==
    /\ Len(fnOut) = 4
    /\ Len(fnIn[1].items) = 3
    /\ FittingSets(fnIn[1].items, fnIn[1].capacity, 2) # {}
    /\ Achievable(fnIn[1].items, fnIn[1].capacity, 2)
         < Achievable(fnIn[1].items, fnIn[1].capacity, 1)
    /\ \E S \in FittingSets(fnIn[1].items, fnIn[1].capacity, 1) :
           FillAdds(fnIn[1].items, fnIn[1].capacity, S)

\* the sum of a field over the items whose bit is set in mask, item i at bit
\* i - 1
RECURSIVE MaskWeight(_, _, _)
MaskWeight(items, mask, i) ==
    IF i > Len(items) THEN 0
    ELSE (IF (mask \div Pow2(i - 1)) % 2 = 1 THEN items[i].weight ELSE 0)
         + MaskWeight(items, mask, i + 1)

RECURSIVE MaskValue(_, _, _)
MaskValue(items, mask, i) ==
    IF i > Len(items) THEN 0
    ELSE (IF (mask \div Pow2(i - 1)) % 2 = 1 THEN items[i].value ELSE 0)
         + MaskValue(items, mask, i + 1)

FeasibleMasks(items, capacity) ==
    {mask \in 1..(Pow2(Len(items)) - 1) : MaskWeight(items, mask, 1) <= capacity}

\* C20: countBundleStats returns n90 <= feasible <= 2^n - 1, feasible the
\* number of non-empty subsets of total weight within the capacity and n90
\* the number of those whose value is at least 90% of the optimal value
C20_BundleCounts ==
    Len(fnOut) >= 3 =>
        LET items == fnIn[1].items
            c     == fnIn[1].capacity
            opt   == fnOut[1].value
            bs    == fnOut[3]
        IN  /\ bs.n90 <= bs.feasible
            /\ bs.feasible <= Pow2(Len(items)) - 1
            /\ bs.feasible = Cardinality(FeasibleMasks(items, c))
            /\ bs.n90 = Cardinality({mask \in FeasibleMasks(items, c) :
                                        MaskValue(items, mask, 1) * 100 >= 90 * opt})

\* the statistics were computed for three items where some subsets do not
\* fit and some that fit are below 90% of the optimum
C20_Witness ==
    /\ Len(fnOut) >= 3
    /\ Len(fnIn[1].items) = 3
    /\ 0 < fnOut[3].n90
    /\ fnOut[3].n90 < fnOut[3].feasible
    /\ fnOut[3].feasible < 7

\* C19: the reported greedy ratio is greedyValue(items, capacity) / optimal
\* value and lies in [0, 1] when the optimal value is > 0, and is 0 when the
\* optimal value is 0
C19_GreedyRatioInUnitRange ==
    Len(fnOut) >= 2 =>
        LET items == fnIn[1].items
            c     == fnIn[1].capacity
            opt   == fnOut[1].value
            r     == fnOut[2]
        IN  IF fnIn[1].cont
            THEN /\ opt > 0 => ~DblGt(r, toDbl(1))
                 /\ opt = 0 => IsZero(r)
            ELSE /\ opt > 0 => /\ r = Ratio(greedyValue(items, c), opt)
                               /\ 0 <= r[1]
                               /\ r[1] <= r[2]
                 /\ opt = 0 => r = RatioZero

(***************************************************************************)
(* Properties of the solver: the selection.                                *)
(***************************************************************************)
\* the best value of the first i items within capacity c, over all subsets
BestOf(items, i, c) ==
    LET fits == {S \in SUBSET (1..i) : WeightOver(items, S) <= c}
        best == CHOOSE S \in fits : \A T \in fits : ValueOver(items, T) <= ValueOver(items, S)
    IN  ValueOver(items, best)

\* the selection that leaves item i out whenever the first i - 1 items reach
\* the best value of the first i items at the capacity left, i = n down to 1
RECURSIVE LeaveOutOnTie(_, _, _)
LeaveOutOnTie(items, i, c) ==
    IF i = 0 THEN {}
    ELSE IF BestOf(items, i, c) # BestOf(items, i - 1, c)
         THEN {i} \cup LeaveOutOnTie(items, i - 1, c - items[i].weight)
         ELSE LeaveOutOnTie(items, i - 1, c)

SelectedIds(sol) == {sol.items[j].id : j \in 1..Len(sol.items)}

\* C24: solveKnapsack breaks ties toward not taking: walking back from item n
\* at capacity C, item i is in the returned subset only if the best value with
\* the first i items differs from the best value with the first i - 1 items at
\* the capacity left; when taking and not taking give the same best value the
\* item is left out
C24_TiesLeaveItemOut ==
    fnOut # Nothing =>
        SelectedIds(fnOut[1])
          = LeaveOutOnTie(fnIn[1].items, Len(fnIn[1].items), fnIn[1].capacity)

\* a call where the last item could be taken for the optimal value and is
\* left out, the earlier items reaching the same value
C24_Witness ==
    /\ fnOut # Nothing
    /\ LET items == fnIn[1].items
           n     == Len(items)
           c     == fnIn[1].capacity
       IN  /\ n = MaxItems
           /\ items[n].weight <= c
           /\ BestOf(items, n - 1, c - items[n].weight) + items[n].value
                = fnOut[1].value
           /\ n \notin SelectedIds(fnOut[1])
           /\ fnOut[1].count >= 1

\* C25: the solution is self-consistent: the returned items are items of the
\* input, each at most once and in the input's order, count is their number
\* and value is the sum of their values
C25_SolutionSelfConsistent ==
    fnOut # Nothing =>
        LET items == fnIn[1].items
            sel   == fnOut[1].items
        IN  /\ \A j \in 1..Len(sel) :
                   /\ sel[j].id \in 1..Len(items)
                   /\ sel[j] = items[sel[j].id]
            /\ \A j \in 1..(Len(sel) - 1) : sel[j].id < sel[j + 1].id
            /\ fnOut[1].count = Len(sel)
            /\ fnOut[1].value = ValueOver(sel, 1..Len(sel))

\* a call that returns two items or more and leaves one out
C25_Witness ==
    /\ fnOut # Nothing
    /\ fnOut[1].count >= 2
    /\ fnOut[1].count < Len(fnIn[1].items)
    /\ fnOut[1].items[1].id > 1

(***************************************************************************)
(* Properties of the capacity search.                                      *)
(***************************************************************************)
\* the scan window of an item list and a budget range, as a set
Window(items, budgetMin, budgetMax) ==
    {c \in 1..budgetMax : c >= budgetMin /\ c <= WeightOver(items, 1..Len(items)) - 1}

\* the candidates of app.js: the capacities of the window whose optimal
\* solution has the targeted number of items
SingleCandidates(in) ==
    {c \in Window(in.items, in.budgetMin, in.budgetMax) :
        in.targetOptSize # NoFilter =>
            solveKnapsack(in.items, c).count = in.targetOptSize}

\* the candidates of batch-app.js: count within size..size + 1 and value
\* within the optimal-value range
BatchCandidates(in) ==
    {c \in Window(in.items, in.budgetMin, in.budgetMax) :
        LET sol == solveKnapsack(in.items, c)
        IN  /\ in.targetOptSize # NoFilter =>
                  (sol.count >= in.targetOptSize /\ sol.count <= in.targetOptSize + 1)
            /\ in.minOptVal # NULL => sol.value >= in.minOptVal
            /\ in.maxOptVal # NULL => sol.value <= in.maxOptVal}

\* the capacities of a candidate set whose Sahni-k is k
WithSahni(items, cands, k) == {c \in cands : SahniAt(items, c) = k}

\* what the claim lets a search return for a non-empty candidate set: with a
\* Sahni-k target the least candidate with that Sahni-k, or null; without
\* one the candidate with floor(length / 2) candidates below it
Chosen(items, cands, targetSahniK, result) ==
    IF targetSahniK # NoFilter
    THEN IF WithSahni(items, cands, targetSahniK) = {} THEN result = Nothing
         ELSE /\ result # Nothing
              /\ result[1].capacity \in WithSahni(items, cands, targetSahniK)
              /\ \A c \in WithSahni(items, cands, targetSahniK) :
                     result[1].capacity <= c
    ELSE /\ result # Nothing
         /\ result[1].capacity \in cands
         /\ Cardinality({c \in cands : c < result[1].capacity})
              = Cardinality(cands) \div 2

\* C26: with a non-empty candidate list, findCapacityInRange returns the
\* first candidate whose Sahni-k equals the target, or null if none does,
\* when a Sahni-k target is set, and the candidate at list position
\* floor(length / 2) when none is set (app.js and batch-app.js)
C26_CandidateChoice ==
    /\ (Len(fnOut) >= 1 /\ SingleCandidates(fnIn[1]) # {}) =>
          Chosen(fnIn[1].items, SingleCandidates(fnIn[1]), fnIn[1].targetSahniK,
                 fnOut[1])
    /\ (Len(fnOut) >= 2 /\ BatchCandidates(fnIn[1]) # {}) =>
          Chosen(fnIn[1].items, BatchCandidates(fnIn[1]), fnIn[1].targetSahniK,
                 fnOut[2])

\* both searches have run with a Sahni-k target on three candidates or more,
\* the least of which has another Sahni-k, and returned a later one
C26_Witness ==
    /\ Len(fnOut) = 2
    /\ fnIn[1].targetSahniK # NoFilter
    /\ Cardinality(SingleCandidates(fnIn[1])) >= 3
    /\ fnOut[1] # Nothing
    /\ \E c \in SingleCandidates(fnIn[1]) : c < fnOut[1][1].capacity
    /\ fnOut[2] # Nothing
    /\ \E c \in BatchCandidates(fnIn[1]) : c < fnOut[2][1].capacity


(***************************************************************************)
(* Properties of the metrics: Sahni-k against the size of the solution.    *)
(***************************************************************************)
\* C29: for positive integer weights and values, with optimalValue the
\* solver's optimum at the capacity and a solver's subset of m <= 6 items,
\* computeSahniK returns an integer k <= m; for a list of at most 6 items it
\* never returns the "> 6" sentinel
C29_SahniKAtMostCount ==
    (Len(fnOut) >= 4 /\ ~fnIn[1].cont) =>
        /\ fnOut[1].count <= 6 =>
              (fnOut[4] # MoreThanSix /\ fnOut[4] >= 0
                  /\ fnOut[4] <= fnOut[1].count)
        /\ Len(fnIn[1].items) <= 6 => fnOut[4] # MoreThanSix

\* Sahni-k was computed and is as large as the solver's subset, of two items
\* or more: no smaller forced set reaches the optimum
C29_Witness ==
    /\ Len(fnOut) >= 4
    /\ ~fnIn[1].cont
    /\ fnOut[1].count >= 2
    /\ fnOut[4] = fnOut[1].count

\* Sahni-k was computed for a list of more than 6 items of which the solver
\* takes at most 6, and greedy alone does not reach the optimum
C29_WitnessWide ==
    /\ Len(fnOut) >= 4
    /\ ~fnIn[1].cont
    /\ Len(fnIn[1].items) > 6
    /\ fnOut[1].count <= 6
    /\ fnOut[4] >= 1


(***************************************************************************)
(* Properties of the solver on continuous weights.                         *)
(***************************************************************************)
\* the items of a list whose weight is not an integer
Fractional(items) ==
    {i \in 1..Len(items) : ~IsIntegerDbl(items[i].weight)}

\* C30: with an integer capacity, solveKnapsack never selects an item whose
\* weight is not an integer: only items of integer weight are returned, and
\* the value is the one reached with those alone
C30_NoFractionalWeightSelected ==
    fnOut # Nothing =>
        /\ \A j \in 1..Len(fnOut[1].items) :
               IsIntegerDbl(fnOut[1].items[j].weight)
        /\ \A j \in 1..Len(fnOut[1].items) :
               fnOut[1].items[j].id \notin Fractional(fnIn[1].items)

\* the solver has returned a subset of one item or more and left out an item
\* of fractional weight that fits the capacity alone and is worth more than
\* the value returned
C30_Witness ==
    /\ fnOut # Nothing
    /\ fnOut[1].count >= 1
    /\ \E i \in Fractional(fnIn[1].items) :
          /\ DblGeq(toDbl(fnIn[1].capacity), fnIn[1].items[i].weight)
          /\ DblGt(fnIn[1].items[i].value, toDbl(fnOut[1].value))


(***************************************************************************)
(* Properties of the seed search: it ends.                                 *)
(***************************************************************************)
\* the search entered last has returned a result object, which carries a
\* warning when no attempt was accepted
SearchReturned ==
    \/ /\ page = "single"
       /\ pc = "done"
       /\ currentInstance # Nothing
       /\ found \/ currentInstance[1].warning # Nothing
    \/ /\ page = "dual"
       /\ pc = "done"
       /\ currentResult # Nothing
       /\ found \/ currentResult[1].warning # Nothing
    \/ /\ page = "batch"
       /\ pc = "next"
       /\ idx >= 1
       /\ Len(allResults) = idx
       /\ found \/ allResults[idx].warning # Nothing

RangeAboveWeights(cfg) ==
    /\ cfg.budgetMin <= cfg.budgetMax
    /\ \A k \in Attempts :
           cfg.budgetMin > TotalWeight(itemsFor(cfg, attemptSeed(cfg.seed, k)))

\* C23: with the budget range entirely above the sum of the item weights,
\* findCapacityInRange returns null for the items of every attempt, whatever
\* the targets; every attempt is skipped before anything is solved (no
\* capacity, no greedy ratio and no bundle count is ever set in the loop), and
\* the search returns the fallback result, which carries a warning
C23_RangeAboveWeightsFallsBack ==
    (page = "single" /\ config # Nothing /\ pc \in {"search", "built", "done"}
        /\ RangeAboveWeights(config[1])) =>
        /\ \A k \in Attempts :
               SingleChoice(config[1], attemptSeed(config[1].seed, k)) = Nothing
        /\ ~found
        /\ pc = "search" =>
              /\ loc[1].capacity = NULL
              /\ loc[1].foundGreedyRatio = Nothing
              /\ loc[1].foundN90 = NULL
              /\ loc[1].warning = Nothing
        /\ pc \in {"built", "done"} =>
              /\ attempt = MAX_ATTEMPTS
              /\ loc[1].usedSeed = config[1].seed
              /\ loc[1].warning # Nothing
        /\ pc = "done" =>
              /\ currentInstance # Nothing
              /\ currentInstance[1].warning # Nothing
              /\ currentInstance[1].seed = config[1].seed

\* a search whose budget range is above every total weight, with no other
\* constraint, has stored its result
C23_Witness ==
    /\ page = "single"
    /\ pc = "done"
    /\ RangeAboveWeights(config[1])
    /\ config[1].optimalSize = NoFilter
    /\ config[1].targetSahniK = NoFilter
    /\ config[1].greedyCap = NoFilter
    /\ currentInstance # Nothing
    /\ currentInstance[1].warning # Nothing


(***************************************************************************)
(* Properties of the budget-pair finder.                                   *)
(***************************************************************************)
\* a search is between two batches
SearchRunning == page = "finder" /\ pc = "timer"

\* the search has ended: Search is enabled again and Stop is hidden
SearchEnded ==
    /\ page = "finder"
    /\ pc = "idle"
    /\ ~dom.searchBtnDisabled
    /\ ~dom.stopBtnShown

\* C21: once a stop is requested while a search is running, no step appends
\* a pair to foundPairs or checks another pair, the pairs found before are
\* kept, no further batch is scheduled (the one step that moves the search
\* ends it), and the search does end
C21_StopEndsSearch ==
    /\ [][(SearchRunning /\ stopRequested) =>
             /\ foundPairs' = foundPairs
             /\ loc'[1].checked = loc[1].checked
             /\ loc'[1].startIdx = loc[1].startIdx
             /\ (pc' # pc \/ dom' # dom) => SearchEnded']_vars
    /\ (SearchRunning /\ stopRequested) ~> (SearchEnded /\ stopRequested)

\* a search has ended on a stop request before every pair was checked, with
\* the pairs found until then
C21_Witness ==
    /\ SearchEnded
    /\ stopRequested
    /\ loc # Nothing
    /\ loc[1].checked >= BATCH_SIZE
    /\ loc[1].checked < loc[1].totalPairs
    /\ Len(foundPairs) >= 1


\* one entry of currentResult is what the solver returns for the items at
\* the budget of the entry
EntryMatches(entry, items) ==
    LET sol == solveKnapsack(items, entry.budget)
    IN  /\ entry.value = sol.value
        /\ entry.weight = sol.weight
        /\ entry.count = sol.count
        /\ entry.item_ids = [j \in 1..Len(sol.items) |-> sol.items[j].id]

\* C27: after any sequence of item edits, searches and pair selections, the
\* stored currentResult is consistent with its own items: optimal_low and
\* optimal_high are the solver's solution for currentResult.items at
\* budget_low and budget_high
C27_ResultMatchesItsItems ==
    (page = "finder" /\ currentResult # Nothing) =>
        /\ currentResult[1].optimal_low.budget = currentResult[1].budget_low
        /\ currentResult[1].optimal_high.budget = currentResult[1].budget_high
        /\ EntryMatches(currentResult[1].optimal_low, currentResult[1].items)
        /\ EntryMatches(currentResult[1].optimal_high, currentResult[1].items)

\* the capacities of a window whose solution meets the per-budget targets
ValidCapacities(items, budgetMin, budgetMax, targetOptSize, targetSahniK) ==
    {c \in Window(items, budgetMin, budgetMax) :
        /\ targetOptSize # NoFilter => solveKnapsack(items, c).count = targetOptSize
        /\ targetSahniK # NoFilter => SahniAt(items, c) = targetSahniK}

\* a pair of budgets passes the pair filters of a configuration
PairPasses(cfg, items, c) ==
    /\ GreedyBelow(cfg.greedyCap, items, c)
    /\ ShareWithin(cfg.forgivenessCap, items, c)
    /\ FloorMet(cfg.minFeasible, items, c)

\* the pairs a search has to find
PassingPairs(cfg, items) ==
    {p \in ValidCapacities(items, cfg.budgetLowMin, cfg.budgetLowMax,
                           cfg.optimalSizeLow, cfg.sahniKLow)
           \X ValidCapacities(items, cfg.budgetHighMin, cfg.budgetHighMax,
                              cfg.optimalSizeHigh, cfg.sahniKHigh) :
        PairPasses(cfg, items, p[1]) /\ PairPasses(cfg, items, p[2])}

\* the budgets of the pairs found, in the order of foundPairs
FoundBudgets == [j \in 1..Len(foundPairs) |->
                    <<foundPairs[j].low.capacity, foundPairs[j].high.capacity>>]

\* a search has run to its end and no stop was requested
SearchCompleted ==
    /\ page = "finder"
    /\ pc = "idle"
    /\ loc # Nothing
    /\ ~stopRequested

\* C28: when a search runs to completion without a stop request, checked
\* equals totalPairs, the number of pairs of validLow x validHigh, and
\* foundPairs holds exactly the pairs that pass the active filters at both
\* budgets, once each, ordered by low then high budget; a batch handles at
\* most BATCH_SIZE pairs
C28_CompletedSearchFindsAll ==
    /\ [](SearchCompleted =>
            /\ loc[1].checked = loc[1].totalPairs
            /\ loc[1].totalPairs
                 = Cardinality(ValidCapacities(loc[1].items, config[1].budgetLowMin,
                                   config[1].budgetLowMax, config[1].optimalSizeLow,
                                   config[1].sahniKLow))
                   * Cardinality(ValidCapacities(loc[1].items, config[1].budgetHighMin,
                                     config[1].budgetHighMax, config[1].optimalSizeHigh,
                                     config[1].sahniKHigh))
            /\ Range(FoundBudgets) = PassingPairs(config[1], loc[1].items)
            /\ \A j \in 1..(Len(foundPairs) - 1) :
                   \/ FoundBudgets[j][1] < FoundBudgets[j + 1][1]
                   \/ /\ FoundBudgets[j][1] = FoundBudgets[j + 1][1]
                      /\ FoundBudgets[j][2] < FoundBudgets[j + 1][2])
    /\ [][(page = "finder" /\ loc' # loc) =>
             IF pc = "timer"
             THEN /\ loc'[1].checked >= loc[1].checked
                  /\ loc'[1].checked - loc[1].checked <= BATCH_SIZE
             ELSE loc'[1].checked <= BATCH_SIZE]_vars

\* a search of three batches or more has run to completion, finding some of
\* the pairs and rejecting others
C28_Witness ==
    /\ SearchCompleted
    /\ loc[1].totalPairs > 2 * BATCH_SIZE
    /\ Len(foundPairs) >= 2
    /\ Len(foundPairs) < loc[1].totalPairs

====
